---- MODULE Spec2Model ----
(***************************************************************************)
(* Model of github.com/Distortions81/goVarFloat (package varfloat).        *)
(*                                                                         *)
(* Go's uint64 / int64 values and float64 significands do not fit TLC's    *)
(* 32-bit integers, so an unsigned integer is modelled as the set of the   *)
(* positions of its one bits (bit 0 is the least significant one): 5 is    *)
(* {0, 2}, 2^52 is {52}, 2^64 - 1 is 0..63.  An int64 is its 64-bit two's  *)
(* complement pattern.  A float64 is a record                              *)
(*     [cls, sign, sig, exp]   of value  (-1)^sign * sig * 2^exp           *)
(* in canonical form (sig has bit 52 set, or exp = -1074 for subnormals,   *)
(* or sig = {} and exp = 0 for zero), so that every arithmetic operation   *)
(* is the exact result rounded as IEEE 754 rounds it.                      *)
(***************************************************************************)
EXTENDS Integers, Sequences, FiniteSets, TLC

----------------------------------------------------------------------------
(* Unsigned arithmetic on bit sets *)

MaxOf(S) == CHOOSE x \in S : \A y \in S : y <= x

BitLen(S) == IF S = {} THEN 0 ELSE MaxOf(S) + 1

Shl(S, k) == {i + k : i \in S}

Shr(S, k) == {i - k : i \in {j \in S : j >= k}}

Xor(A, B) == (A \ B) \cup (B \ A)

Low(S, k) == {i \in S : i < k}

Wrap64(S) == {i \in S : i < 64}

Not64(S) == (0..63) \ S

\* A + B: bit i of the sum is a_i xor b_i xor (carry into i); the carry
\* into i comes from a position j < i where both bits are set, through
\* positions where at least one is
BAdd(A, B) ==
    LET G == A \cap B
        P == A \cup B
        carry(i) == \E j \in G : j < i /\ \A k \in (j + 1)..(i - 1) : k \in P
    IN  IF G = {} THEN P
        ELSE {i \in P \cup Shl(P, 1) : ((i \in A) # (i \in B)) # carry(i)}

\* A - B for A >= B: the borrow into i comes from a position j < i where
\* only B's bit is set, through positions where the two bits are equal
BSub(A, B) ==
    LET G == B \ A
        carry(i) == \E j \in G : j < i /\ \A k \in (j + 1)..(i - 1) : (k \in A) = (k \in B)
    IN  IF G = {} THEN A \ B
        ELSE {i \in 0..MaxOf(A) : ((i \in A) # (i \in B)) # carry(i)}

BLess(A, B) == A # B /\ MaxOf(Xor(A, B)) \in B

BLeq(A, B) == A = B \/ BLess(A, B)

\* A * B: the sum of A << i over the bits i of B in lo..hi
RECURSIVE BMulRange(_, _, _, _)
BMulRange(A, B, lo, hi) ==
    IF lo = hi THEN (IF lo \in B THEN Shl(A, lo) ELSE {})
    ELSE LET mid == (lo + hi) \div 2
         IN  BAdd(BMulRange(A, B, lo, mid), BMulRange(A, B, mid + 1, hi))

BMul(A, B) ==
    IF A = {} \/ B = {} THEN {}
    ELSE IF Cardinality(A) < Cardinality(B) THEN BMulRange(B, A, 0, MaxOf(A))
    ELSE BMulRange(A, B, 0, MaxOf(B))

\* restoring division: quotient bits hi down to lo of rem / D, and what
\* is left of rem
RECURSIVE BDivRange(_, _, _, _)
BDivRange(rem, D, hi, lo) ==
    IF hi = lo
    THEN LET Di == Shl(D, hi)
         IN  IF BLess(rem, Di) THEN [q |-> {}, rem |-> rem]
             ELSE [q |-> {hi}, rem |-> BSub(rem, Di)]
    ELSE LET mid  == (hi + lo + 1) \div 2
             high == BDivRange(rem, D, hi, mid)
             low  == BDivRange(high.rem, D, mid - 1, lo)
         IN  [q |-> high.q \cup low.q, rem |-> low.rem]

\* floor(N / D) and N mod D for D # {}
BDivMod(N, D) ==
    IF BLess(N, D) THEN [q |-> {}, rem |-> N]
    ELSE BDivRange(N, D, BitLen(N) - BitLen(D), 0)

\* conversions between bit sets and TLC integers below 2^31
NatBits(n) == {i \in 0..30 : (n \div (2^i)) % 2 = 1}

RECURSIVE BitsNatFrom(_, _)
BitsNatFrom(S, i) ==
    IF i > 30 THEN 0
    ELSE (IF i \in S THEN 2^i ELSE 0) + BitsNatFrom(S, i + 1)

BitsNat(S) == BitsNatFrom(S, 0)

\* two's complement int64 from a TLC integer
I64(n) == IF n >= 0 THEN NatBits(n) ELSE Not64(NatBits(-n - 1))

INT64_MIN == {63}
INT64_MAX == 0..62

I64Neg(x) == 63 \in x

Neg64(x) == Wrap64(BAdd(Not64(x), {0}))

I64Add(a, b) == Wrap64(BAdd(a, b))

I64Sub(a, b) == Wrap64(BAdd(a, Neg64(b)))

\* a < b as signed 64-bit integers
I64Less(a, b) ==
    IF I64Neg(a) # I64Neg(b) THEN I64Neg(a) ELSE BLess(a, b)

\* magnitude of an int64 as an unsigned integer (2^63 for INT64_MIN)
I64Abs(x) == IF I64Neg(x) THEN Neg64(x) ELSE x

\* TLC integer of an int64 of small magnitude
I64Int(x) == IF I64Neg(x) THEN -BitsNat(Neg64(x)) ELSE BitsNat(x)

----------------------------------------------------------------------------
(* float64 *)

Zero(sign) == [cls |-> "fin", sign |-> sign, sig |-> {}, exp |-> 0]

Inf(sign) == [cls |-> "inf", sign |-> sign, sig |-> {}, exp |-> 0]

NaN == [cls |-> "nan", sign |-> 0, sig |-> {}, exp |-> 0]

Fin(sign, sig, exp) == [cls |-> "fin", sign |-> sign, sig |-> sig, exp |-> exp]

IsZero(f) == f.cls = "fin" /\ f.sig = {}

Max2(a, b) == IF a >= b THEN a ELSE b

Min2(a, b) == IF a <= b THEN a ELSE b

\* The float64 nearest to (-1)^sign * N * 2^e, ties to even; sticky says
\* that the exact value is a little above N * 2^e (by less than 2^e).
RoundF64(sign, N, e, sticky) ==
    IF N = {} THEN Zero(sign)
    ELSE
      LET drop == Max2(BitLen(N) - 53, (-1074) - e)
          q    == Shr(N, drop)
          half == (drop - 1) \in N
          rest == sticky \/ Low(N, drop - 1) # {}
          r    == IF drop <= 0 THEN Shl(N, -drop)
                  ELSE IF half /\ (rest \/ 0 \in q) THEN BAdd(q, {0})
                  ELSE q
          sig  == IF 53 \in r THEN {52} ELSE r
          ex   == IF 53 \in r THEN e + drop + 1 ELSE e + drop
      IN  IF r = {} THEN Zero(sign)
          ELSE IF ex > 971 THEN Inf(sign)
          ELSE Fin(sign, sig, ex)

\* Go's == on float64
FEq(a, b) ==
    /\ a.cls # "nan"
    /\ b.cls # "nan"
    /\ \/ IsZero(a) /\ IsZero(b)
       \/ a = b

\* Go's < on float64
FLess(a, b) ==
    /\ a.cls # "nan"
    /\ b.cls # "nan"
    /\ ~FEq(a, b)
    /\ LET mag(x) == IF x.cls = "inf" THEN [top |-> 5000, sig |-> {}]
                     ELSE IF x.sig = {} THEN [top |-> -5000, sig |-> {}]
                     ELSE [top |-> BitLen(x.sig) + x.exp,
                           sig |-> Shl(x.sig, 53 - BitLen(x.sig))]
           magLess(x, y) == \/ mag(x).top < mag(y).top
                            \/ mag(x).top = mag(y).top /\ BLess(mag(x).sig, mag(y).sig)
           neg(x) == x.sign = 1 /\ ~IsZero(x)
       IN  IF neg(a) # neg(b) THEN neg(a)
           ELSE IF neg(a) THEN magLess(b, a)
           ELSE magLess(a, b)

FNeg(f) == IF f.cls = "nan" THEN f ELSE [f EXCEPT !.sign = 1 - f.sign]

FAdd(a, b) ==
    IF a.cls = "nan" \/ b.cls = "nan" THEN NaN
    ELSE IF a.cls = "inf" /\ b.cls = "inf" THEN (IF a.sign = b.sign THEN a ELSE NaN)
    ELSE IF a.cls = "inf" THEN a
    ELSE IF b.cls = "inf" THEN b
    ELSE
      LET e == Min2(a.exp, b.exp)
          A == Shl(a.sig, a.exp - e)
          B == Shl(b.sig, b.exp - e)
      IN  IF a.sign = b.sign THEN RoundF64(a.sign, BAdd(A, B), e, FALSE)
          ELSE IF A = B THEN Zero(0)
          ELSE IF BLess(B, A) THEN RoundF64(a.sign, BSub(A, B), e, FALSE)
          ELSE RoundF64(b.sign, BSub(B, A), e, FALSE)

FSub(a, b) == FAdd(a, FNeg(b))

FMul(a, b) ==
    LET s == (a.sign + b.sign) % 2
    IN  IF a.cls = "nan" \/ b.cls = "nan" THEN NaN
        ELSE IF a.cls = "inf" \/ b.cls = "inf"
             THEN (IF IsZero(a) \/ IsZero(b) THEN NaN ELSE Inf(s))
        ELSE RoundF64(s, BMul(a.sig, b.sig), a.exp + b.exp, FALSE)

FDiv(a, b) ==
    LET s == (a.sign + b.sign) % 2
    IN  IF a.cls = "nan" \/ b.cls = "nan" THEN NaN
        ELSE IF a.cls = "inf" THEN (IF b.cls = "inf" THEN NaN ELSE Inf(s))
        ELSE IF b.cls = "inf" THEN Zero(s)
        ELSE IF IsZero(b) THEN (IF IsZero(a) THEN NaN ELSE Inf(s))
        ELSE IF IsZero(a) THEN Zero(s)
        ELSE
          LET k  == 56 + BitLen(b.sig) - BitLen(a.sig)
              qr == BDivMod(Shl(a.sig, k), b.sig)
          IN  RoundF64(s, qr.q, a.exp - b.exp - k, qr.rem # {})

\* float64(u) for a uint64 (or non-negative int) u
U64ToF64(u) == RoundF64(0, u, 0, FALSE)

\* float64(n) for an int64 n
I64ToF64(n) == RoundF64(IF I64Neg(n) THEN 1 ELSE 0, I64Abs(n), 0, FALSE)

One == Fin(0, {52}, -52)

Half == Fin(0, {52}, -53)

Two == Fin(0, {52}, -51)

----------------------------------------------------------------------------
(* math and encoding/binary functions the package calls *)

\* math.Frexp: f = frac * 2^exp with 1/2 <= |frac| < 1
Frexp(f) ==
    IF f.cls # "fin" \/ f.sig = {} THEN [frac |-> f, exp |-> 0]
    ELSE LET L == BitLen(f.sig)
         IN  [frac |-> Fin(f.sign, Shl(f.sig, 53 - L), -53), exp |-> f.exp + L]

\* math.Ldexp: frac * 2^exp
Ldexp(frac, exp) ==
    IF frac.cls # "fin" \/ frac.sig = {} THEN frac
    ELSE RoundF64(frac.sign, frac.sig, frac.exp + exp, FALSE)

\* math.Round: nearest integer, halves away from zero
Round(f) ==
    IF f.cls # "fin" \/ f.exp >= 0 THEN f
    ELSE LET ip == Shr(f.sig, -f.exp)
             up == (-f.exp - 1) \in f.sig
         IN  RoundF64(f.sign, IF up THEN BAdd(ip, {0}) ELSE ip, 0, FALSE)

\* uint64(f) for an integral float64 0 <= f < 2^64
F64ToU64(f) == IF f.exp >= 0 THEN Shl(f.sig, f.exp) ELSE Shr(f.sig, -f.exp)

\* mutation of PutUvarint: no byte carries the continuation bit
RECURSIVE PutUvarintNoContinuation(_)
PutUvarintNoContinuation(x) ==
    IF BLess(x, {7}) THEN <<BitsNat(x)>>
    ELSE <<BitsNat(Low(x, 7))>> \o PutUvarintNoContinuation(Shr(x, 7))

\* binary.PutUvarint: the bytes written for x
RECURSIVE PutUvarint(_)
PutUvarint(x) ==
    IF BLess(x, {7}) THEN <<BitsNat(x)>>
    ELSE <<BitsNat(Low(x, 7)) + 128>> \o PutUvarint(Shr(x, 7))

MaxVarintLen64 == 10

\* mutation of UvarintLoop: a buffer that ends inside the varint gives the
\* bits read so far
RECURSIVE UvarintLoopNoEOF(_, _, _, _)
UvarintLoopNoEOF(buf, i, x, s) ==
    IF i >= Len(buf) THEN [x |-> x, n |-> i]
    ELSE IF i = MaxVarintLen64 THEN [x |-> {}, n |-> -(i + 1)]
    ELSE LET b == buf[i + 1]
         IN  IF b < 128
             THEN IF i = MaxVarintLen64 - 1 /\ b > 1
                  THEN [x |-> {}, n |-> -(i + 1)]
                  ELSE [x |-> x \cup Shl(NatBits(b), s), n |-> i + 1]
             ELSE UvarintLoopNoEOF(buf, i + 1, x \cup Shl(NatBits(b % 128), s), s + 7)

\* binary.Uvarint: [x, n]; n = 0 when buf is too small, n < 0 on overflow
RECURSIVE UvarintLoop(_, _, _, _)
UvarintLoop(buf, i, x, s) ==
    IF i >= Len(buf) THEN [x |-> {}, n |-> 0]
    ELSE IF i = MaxVarintLen64 THEN [x |-> {}, n |-> -(i + 1)]
    ELSE LET b == buf[i + 1]
         IN  IF b < 128
             THEN IF i = MaxVarintLen64 - 1 /\ b > 1
                  THEN [x |-> {}, n |-> -(i + 1)]
                  ELSE [x |-> x \cup Shl(NatBits(b), s), n |-> i + 1]
             ELSE UvarintLoop(buf, i + 1, x \cup Shl(NatBits(b % 128), s), s + 7)

Uvarint(buf) == UvarintLoop(buf, 0, {}, 0)

----------------------------------------------------------------------------
(* package varfloat *)

Nil == "nil"
ErrBits == "varfloat: mantissa bits must be between 0 and 52"
ErrUnexpectedEOF == "unexpected EOF"
ErrHeader == "varfloat: invalid header"
ErrMantissa == "varfloat: invalid mantissa"
ErrMinMax == "varfloat: min must be <= max"
ErrOutOfBounds == "varfloat: value out of bounds"
ErrMaxAbsErr == "varfloat: maxAbsErr must be > 0"
ErrMaxRelErr == "varfloat: maxRelErr must be in (0, 1)"

Config(bits) == [MantissaBits |-> bits]

\* mutation of NewConfig: only negative bit counts are refused
NewConfigNoUpperBound(bits) ==
    IF bits < 0 THEN [cfg |-> Config(0), err |-> ErrBits]
    ELSE [cfg |-> Config(bits), err |-> Nil]

\* func NewConfig(bits int) (Config, error)
NewConfig(bits) ==
    IF bits < 0 \/ bits > 52 THEN [cfg |-> Config(0), err |-> ErrBits]
    ELSE [cfg |-> Config(bits), err |-> Nil]

\* (1 << bits) - 1, or 0 if bits <= 0
mantMaxForBits(bits) ==
    IF bits <= 0 THEN {}
    ELSE 0..((IF bits >= 63 THEN 63 ELSE bits) - 1)

\* mutation of zigZagEncode: the sign is not folded in
zigZagEncodeNoSign(x) == Wrap64(Shl(x, 1))

\* func zigZagEncode(x int64) uint64
zigZagEncode(x) == Xor(Wrap64(Shl(x, 1)), IF I64Neg(x) THEN 0..63 ELSE {})

\* func zigZagDecode(u uint64) int64
zigZagDecode(u) == Xor(Shr(u, 1), IF 0 \in u THEN 0..63 ELSE {})

\* int(e) as the exponent argument of math.Ldexp: every exponent beyond
\* +-4096 gives the result of +-4096 (overflow to Inf, underflow to zero)
ExpArg(e) ==
    IF I64Neg(e) THEN (IF BLess(Neg64(e), {12}) THEN -BitsNat(Neg64(e)) ELSE -4096)
    ELSE (IF BLess(e, {12}) THEN BitsNat(e) ELSE 4096)

\* mutation of AppendZero: zero written as a zero header and a zero mantissa
AppendZeroTwoBytes(dst) == dst \o <<0, 0>>

\* mutation of AppendZero: the zero byte replaces what dst held
AppendZeroOverwrite(dst) == <<0>>

\* the zero case of Append: return append(dst, 0)
AppendZero(dst) == dst \o <<0>>

\* mutation of PackHeader: the + 1 is left out
PackHeaderNoOffset(ez, sign) == Wrap64(Shl(ez, 1)) \cup NatBits(sign)

\* header := (ez + 1) << 1; header |= uint64(sign)
PackHeader(ez, sign) == Wrap64(Shl(Wrap64(BAdd(ez, {0})), 1)) \cup NatBits(sign)

\* mutation of ConfigAppend: no mantissa uvarint when there are no
\* mantissa bits
ConfigAppendNoMantAtZeroBits(c, dst, v) ==
    IF FEq(v, Zero(0)) THEN AppendZero(dst)
    ELSE
      LET sign    == IF FLess(v, Zero(0)) THEN 1 ELSE 0
          av      == IF sign = 1 THEN FNeg(v) ELSE v
          fr      == Frexp(av)
          m       == FMul(fr.frac, Two)
          e       == fr.exp - 1
          mantMax == mantMaxForBits(c.MantissaBits)
          mant    == IF mantMax # {}
                     THEN F64ToU64(Round(FMul(FSub(m, One), U64ToF64(mantMax))))
                     ELSE {}
          header  == PackHeader(zigZagEncode(I64(e)), sign)
      IN  IF mantMax = {} THEN dst \o PutUvarint(header)
          ELSE dst \o PutUvarint(header) \o PutUvarint(mant)

\* func (c Config) Append(dst []byte, v float64) []byte
\* (v finite: the conversion uint64(...) of line 373 is then in range)
ConfigAppend(c, dst, v) ==
    IF FEq(v, Zero(0)) THEN AppendZero(dst)
    ELSE
      LET sign    == IF FLess(v, Zero(0)) THEN 1 ELSE 0
          av      == IF sign = 1 THEN FNeg(v) ELSE v
          fr      == Frexp(av)
          m       == FMul(fr.frac, Two)
          e       == fr.exp - 1
          mantMax == mantMaxForBits(c.MantissaBits)
          mant    == IF mantMax # {}
                     THEN F64ToU64(Round(FMul(FSub(m, One), U64ToF64(mantMax))))
                     ELSE {}
          ez      == zigZagEncode(I64(e))
          header  == PackHeader(ez, sign)
      IN  dst \o PutUvarint(header) \o PutUvarint(mant)

\* mutation of HeaderSign: the sign bit is not read
HeaderSignDropped(header) == 0

\* sign := int(header & 1)
HeaderSign(header) == IF 0 \in header THEN 1 ELSE 0

\* mutation of Consumed: the header length is left out
ConsumedMantissaOnly(n, mlen) == mlen

\* return v, n + mlen, nil
Consumed(n, mlen) == n + mlen

\* mutation of ConfigConsume: a zero exponent field is not refused
ConfigConsumeNoReservedCheck(c, b) ==
    IF Len(b) = 0 THEN [v |-> Zero(0), n |-> 0, err |-> ErrUnexpectedEOF]
    ELSE IF b[1] = 0 THEN [v |-> Zero(0), n |-> 1, err |-> Nil]
    ELSE
      LET h       == Uvarint(b)
          sign    == HeaderSign(h.x)
          ezPlus1 == Shr(h.x, 1)
          ez      == Wrap64(BAdd(ezPlus1, 0..63))
          e       == zigZagDecode(ez)
          mt      == Uvarint(SubSeq(b, h.n + 1, Len(b)))
          mantMax == mantMaxForBits(c.MantissaBits)
          mPrime  == IF mantMax # {}
                     THEN FAdd(One, FDiv(U64ToF64(mt.x), U64ToF64(mantMax)))
                     ELSE One
          m       == FMul(mPrime, Half)
          v       == Ldexp(m, ExpArg(e))
      IN  IF h.n <= 0 THEN [v |-> Zero(0), n |-> 0, err |-> ErrHeader]
          ELSE IF mt.n <= 0 THEN [v |-> Zero(0), n |-> 0, err |-> ErrMantissa]
          ELSE [v |-> IF sign = 1 THEN FNeg(v) ELSE v, n |-> Consumed(h.n, mt.n), err |-> Nil]

\* func (c Config) Consume(b []byte) (float64, int, error)
ConfigConsume(c, b) ==
    IF Len(b) = 0 THEN [v |-> Zero(0), n |-> 0, err |-> ErrUnexpectedEOF]
    ELSE IF b[1] = 0 THEN [v |-> Zero(0), n |-> 1, err |-> Nil]
    ELSE
      LET h       == Uvarint(b)
          sign    == HeaderSign(h.x)
          ezPlus1 == Shr(h.x, 1)
          ez      == BSub(ezPlus1, {0})
          e       == zigZagDecode(ez)
          mt      == Uvarint(SubSeq(b, h.n + 1, Len(b)))
          mantMax == mantMaxForBits(c.MantissaBits)
          mPrime  == IF mantMax # {}
                     THEN FAdd(One, FDiv(U64ToF64(mt.x), U64ToF64(mantMax)))
                     ELSE One
          m       == FMul(mPrime, Half)
          v       == Ldexp(m, ExpArg(e))
      IN  IF h.n <= 0 THEN [v |-> Zero(0), n |-> 0, err |-> ErrHeader]
          ELSE IF ezPlus1 = {} THEN [v |-> Zero(0), n |-> 0, err |-> ErrHeader]
          ELSE IF mt.n <= 0 THEN [v |-> Zero(0), n |-> 0, err |-> ErrMantissa]
          ELSE [v |-> IF sign = 1 THEN FNeg(v) ELSE v, n |-> Consumed(h.n, mt.n), err |-> Nil]

\* func EncodeFloat(v float64, bits int) ([]byte, error)
EncodeFloat(v, bits) ==
    LET c == NewConfig(bits)
    IN  IF c.err # Nil THEN [b |-> <<>>, err |-> c.err]
        ELSE [b |-> ConfigAppend(c.cfg, <<>>, v), err |-> Nil]

\* func DecodeFloat(b []byte, bits int) (float64, int, error)
DecodeFloat(b, bits) ==
    LET c == NewConfig(bits)
    IN  IF c.err # Nil THEN [v |-> Zero(0), n |-> 0, err |-> c.err]
        ELSE ConfigConsume(c.cfg, b)

\* int64(f) for an integral float64 f: the value when it fits, otherwise
\* (overflow, infinity, NaN) whatever the platform's conversion
\* instruction gives, a set of possible outcomes
F64ToI64(f) ==
    LET mag == IF f.exp >= 0 THEN Shl(f.sig, f.exp) ELSE Shr(f.sig, -f.exp)
    IN  IF f.cls = "nan" THEN {INT64_MIN, {}, INT64_MAX}
        ELSE IF f.cls = "fin" /\ BitLen(f.sig) + f.exp <= 63
             THEN {IF f.sign = 1 THEN Neg64(mag) ELSE mag}
        ELSE IF f.sign = 1 THEN {INT64_MIN}
        ELSE {INT64_MIN, INT64_MAX}

\* if iv < min { iv = min } else if iv > max { iv = max }
Clamp(iv, min, max) ==
    IF I64Less(iv, min) THEN min
    ELSE IF I64Less(max, iv) THEN max
    ELSE iv

\* func autoBitsForWidth(width uint64) int
RECURSIVE autoBitsLoop(_, _)
autoBitsLoop(steps, b) ==
    IF BLess({b}, steps) /\ b < 52 THEN autoBitsLoop(steps, b + 1) ELSE b

autoBitsForWidth(width) ==
    IF width = {} THEN 0
    ELSE autoBitsLoop(Wrap64(BAdd(width, {0})), 0)

\* func BitsForIntRange(min, max int64) (int, error)
BitsForIntRange(min, max) ==
    IF I64Less(max, min) THEN [bits |-> 0, err |-> ErrMinMax]
    ELSE [bits |-> autoBitsForWidth(I64Sub(max, min)), err |-> Nil]

\* mutation of BoundedFloat: the offset from min is encoded
BoundedFloatFromMin(n, min, max) == I64ToF64(I64Sub(n, min))

\* v := float64(n)
BoundedFloat(n, min, max) == I64ToF64(n)

\* mutation of AppendIntBounded: the bit count is checked first
AppendIntBoundedBitsFirst(dst, n, min, max, bits) ==
    LET c == NewConfig(bits)
    IN  IF c.err # Nil THEN [b |-> <<>>, err |-> c.err]
        ELSE IF I64Less(max, min) THEN [b |-> <<>>, err |-> ErrMinMax]
        ELSE IF I64Less(n, min) \/ I64Less(max, n) THEN [b |-> <<>>, err |-> ErrOutOfBounds]
        ELSE [b |-> ConfigAppend(c.cfg, dst, BoundedFloat(n, min, max)), err |-> Nil]

\* func AppendIntBounded(dst []byte, n, min, max int64, bits int) ([]byte, error)
AppendIntBounded(dst, n, min, max, bits) ==
    LET c == NewConfig(bits)
    IN  IF I64Less(max, min) THEN [b |-> <<>>, err |-> ErrMinMax]
        ELSE IF I64Less(n, min) \/ I64Less(max, n) THEN [b |-> <<>>, err |-> ErrOutOfBounds]
        ELSE IF c.err # Nil THEN [b |-> <<>>, err |-> c.err]
        ELSE [b |-> ConfigAppend(c.cfg, dst, BoundedFloat(n, min, max)), err |-> Nil]

\* func ConsumeIntBounded(b []byte, min, max int64, bits int) (int64, int, error):
\* the set of results it can return
ConsumeIntBounded(b, min, max, bits) ==
    LET c == NewConfig(bits)
        r == ConfigConsume(c.cfg, b)
    IN  IF I64Less(max, min) THEN {[n |-> {}, used |-> 0, err |-> ErrMinMax]}
        ELSE IF c.err # Nil THEN {[n |-> {}, used |-> 0, err |-> c.err]}
        ELSE IF r.err # Nil THEN {[n |-> {}, used |-> 0, err |-> r.err]}
        ELSE {[n |-> Clamp(iv, min, max), used |-> r.n, err |-> Nil] :
                 iv \in F64ToI64(Round(r.v))}

\* func AppendIntAuto(dst []byte, n, min, max int64) ([]byte, error)
AppendIntAuto(dst, n, min, max) ==
    IF I64Less(max, min) THEN [b |-> <<>>, err |-> ErrMinMax]
    ELSE IF I64Less(n, min) \/ I64Less(max, n) THEN [b |-> <<>>, err |-> ErrOutOfBounds]
    ELSE AppendIntBounded(dst, n, min, max, autoBitsForWidth(I64Sub(max, min)))

\* func ConsumeIntAuto(b []byte, min, max int64) (int64, int, error):
\* the set of results it can return
ConsumeIntAuto(b, min, max) ==
    IF I64Less(max, min) THEN {[n |-> {}, used |-> 0, err |-> ErrMinMax]}
    ELSE ConsumeIntBounded(b, min, max, autoBitsForWidth(I64Sub(max, min)))

\* a <= b on float64
FLeq(a, b) == FLess(a, b) \/ FEq(a, b)

\* int(math.Ceil(math.Log2(ratio))) for a finite ratio > 1.  math.Log2
\* returns exp - 1 exactly when Frexp gives frac = 0.5; otherwise it returns
\* Log(frac) * (1/Ln2) + exp, which lies above exp - 1 and at most at exp
\* for every ratio that is not within 2^-40 of a power of two, so that
\* Ceil gives exp.
CeilLog2(ratio) ==
    LET fr == Frexp(ratio)
    IN  IF FEq(fr.frac, Half) THEN fr.exp - 1 ELSE fr.exp

\* func BitsForMaxRelError(maxRelErr float64) (int, error): the set of
\* results it can return.  1.0 / maxRelErr is +Inf for maxRelErr below
\* 2^-1024 and NaN for NaN; math.Log2 and math.Ceil return +Inf and NaN
\* unchanged, and int(...) of those is whatever the platform's conversion
\* gives.
BitsForMaxRelError(maxRelErr) ==
    LET inv      == FDiv(One, maxRelErr)
        clamp(b) == IF b < 0 THEN 0 ELSE IF b > 52 THEN 52 ELSE b
        conv(i)  == IF I64Neg(i) THEN 0 ELSE IF I64Less(I64(52), i) THEN 52 ELSE BitsNat(i)
    IN  IF FLeq(maxRelErr, Zero(0)) \/ FLeq(One, maxRelErr)
        THEN {[bits |-> 0, err |-> ErrMaxRelErr]}
        ELSE IF inv.cls = "fin"
        THEN {[bits |-> clamp(CeilLog2(inv)), err |-> Nil]}
        ELSE {[bits |-> conv(i), err |-> Nil] : i \in F64ToI64(inv)}

\* func BitsForIntMaxError(min, max, maxAbsErr int64) (int, error)
BitsForIntMaxError(min, max, maxAbsErr) ==
    LET width == I64ToF64(I64Sub(max, min))
        ratio == FDiv(width, I64ToF64(maxAbsErr))
        b     == CeilLog2(ratio)
    IN  IF I64Less(max, min) THEN [bits |-> 0, err |-> ErrMinMax]
        ELSE IF ~I64Less({}, maxAbsErr) THEN [bits |-> 0, err |-> ErrMaxAbsErr]
        ELSE IF FLeq(width, Zero(0)) THEN [bits |-> 0, err |-> Nil]
        ELSE IF FLeq(width, I64ToF64(maxAbsErr)) THEN [bits |-> 0, err |-> Nil]
        ELSE [bits |-> IF b < 0 THEN 0 ELSE IF b > 52 THEN 52 ELSE b, err |-> Nil]

\* func EncodeIntLossy(dst []byte, n, min, max, maxAbsErr int64) ([]byte, error)
EncodeIntLossy(dst, n, min, max, maxAbsErr) ==
    LET r == BitsForIntMaxError(min, max, maxAbsErr)
    IN  IF I64Less(max, min) THEN [b |-> <<>>, err |-> ErrMinMax]
        ELSE IF I64Less(n, min) \/ I64Less(max, n) THEN [b |-> <<>>, err |-> ErrOutOfBounds]
        ELSE IF r.err # Nil THEN [b |-> <<>>, err |-> r.err]
        ELSE AppendIntBounded(dst, n, min, max, r.bits)

\* func DecodeIntLossy(b []byte, min, max, maxAbsErr int64) (int64, int, error):
\* the set of results it can return
DecodeIntLossy(b, min, max, maxAbsErr) ==
    LET r == BitsForIntMaxError(min, max, maxAbsErr)
    IN  IF I64Less(max, min) THEN {[n |-> {}, used |-> 0, err |-> ErrMinMax]}
        ELSE IF r.err # Nil THEN {[n |-> {}, used |-> 0, err |-> r.err]}
        ELSE ConsumeIntBounded(b, min, max, r.bits)

\* mutation of SetMantissaBits: the Config is stored even when NewConfig
\* refused the bit count
SetMantissaBitsOnError(def, bits) ==
    LET r == NewConfig(bits)
    IN  [cfg |-> r.cfg, err |-> r.err]

\* mutation of SetMantissaBits: the bit count is stored without a check
SetMantissaBitsUnchecked(def, bits) == [cfg |-> Config(bits), err |-> Nil]

\* func SetMantissaBits(bits int) error, with def the DefaultConfig it
\* finds: cfg is the DefaultConfig it leaves
SetMantissaBits(def, bits) ==
    LET r == NewConfig(bits)
    IN  IF r.err # Nil THEN [cfg |-> def, err |-> r.err]
        ELSE [cfg |-> r.cfg, err |-> Nil]

\* mutation of ReceiverConfig: the method runs on DefaultConfig
ReceiverDefault(cfg, def) == def

\* the receiver of cfg.Append(buf, v) and cfg.Consume(b) in EncodeFloat and
\* DecodeFloat: the Config that NewConfig returned to this call
ReceiverConfig(cfg, def) == cfg

\* func Append(dst []byte, v float64) []byte, with def the DefaultConfig
\* it finds
PackageAppend(def, dst, v) == ConfigAppend(def, dst, v)

\* func Consume(b []byte) (float64, int, error), with def the
\* DefaultConfig it finds
PackageConsume(def, b) == ConfigConsume(def, b)

ErrSliceLength == "varfloat: invalid slice length"
ErrIntsEmpty == "varfloat: empty buffer for DecodeIntsBoundedSlice"
ErrIntsHeader == "varfloat: invalid mantissa bits in header"
ErrIntsLength == "varfloat: failed to decode length for ints slice"

\* the largest allocation the Go runtime accepts on 64-bit Linux, 2^48 bytes
MaxAlloc == {48}

\* make([]T, 0, length) with 8-byte elements and a uint64 length: the
\* runtime panics ("makeslice: cap out of range") when the capacity in bytes
\* exceeds MaxAlloc.  Smaller requests are taken to succeed.
MakeSlicePanics(length) == BLess(MaxAlloc, Shl(length, 3))

\* for _, v := range values { buf = cfg.Append(buf, v) }
RECURSIVE AppendAll(_, _, _, _)
AppendAll(cfg, buf, values, i) ==
    IF i > Len(values) THEN buf
    ELSE AppendAll(cfg, ConfigAppend(cfg, buf, values[i]), values, i + 1)

\* func EncodeFloatSlice(values []float64, bits int) ([]byte, error)
EncodeFloatSlice(values, bits) ==
    LET c == NewConfig(bits)
    IN  IF c.err # Nil THEN [b |-> <<>>, err |-> c.err]
        ELSE [b |-> AppendAll(c.cfg, PutUvarint(NatBits(Len(values))), values, 1),
              err |-> Nil]

RECURSIVE ConsumeAll(_, _, _, _, _, _)

\* the body of the loop of DecodeFloatSlice, with r what cfg.Consume(b)
\* returned: values = append(values, v); b = b[used:]; consumed += used
ConsumeNext(cfg, b, length, i, values, consumed, r) ==
    IF r.err # Nil
    THEN [values |-> <<>>, n |-> 0, err |-> r.err, panicked |-> FALSE]
    ELSE ConsumeAll(cfg, SubSeq(b, r.n + 1, Len(b)), length, i + 1,
                    Append(values, r.v), consumed + r.n)

\* for i := uint64(0); i < length; i++ { v, used, err := cfg.Consume(b) ... }
ConsumeAll(cfg, b, length, i, values, consumed) ==
    IF ~BLess(NatBits(i), length)
    THEN [values |-> values, n |-> consumed, err |-> Nil, panicked |-> FALSE]
    ELSE ConsumeNext(cfg, b, length, i, values, consumed, ConfigConsume(cfg, b))

\* func DecodeFloatSlice(b []byte, bits int) ([]float64, int, error);
\* panicked when the call does not return
DecodeFloatSlice(b, bits) ==
    LET c == NewConfig(bits)
        u == Uvarint(b)
    IN  IF c.err # Nil
        THEN [values |-> <<>>, n |-> 0, err |-> c.err, panicked |-> FALSE]
        ELSE IF u.n <= 0
        THEN [values |-> <<>>, n |-> 0, err |-> ErrSliceLength, panicked |-> FALSE]
        ELSE IF MakeSlicePanics(u.x)
        THEN [values |-> <<>>, n |-> 0, err |-> Nil, panicked |-> TRUE]
        ELSE ConsumeAll(c.cfg, SubSeq(b, u.n + 1, Len(b)), u.x, 0, <<>>, u.n)

\* func EncodeFloats / func DecodeFloats
EncodeFloats(values, bits) == EncodeFloatSlice(values, bits)

DecodeFloats(b, bits) == DecodeFloatSlice(b, bits)

\* a result of DecodeIntsBoundedSlice that is an error
IntsFailed(err) ==
    [values |-> <<>>, bits |-> 0, n |-> 0, err |-> err, panicked |-> FALSE]

\* for i := uint64(0); i < length; i++ { v, consumed, err :=
\* ConsumeIntBounded(b[offset:], min, max, bits) ... }: the set of results
RECURSIVE ConsumeAllInts(_, _, _, _, _, _, _, _)
ConsumeAllInts(b, min, max, bits, length, i, values, offset) ==
    IF ~BLess(NatBits(i), length)
    THEN {[values |-> values, bits |-> bits, n |-> offset, err |-> Nil,
           panicked |-> FALSE]}
    ELSE UNION { IF r.err # Nil THEN {IntsFailed(r.err)}
                 ELSE ConsumeAllInts(b, min, max, bits, length, i + 1,
                                     Append(values, r.n), offset + r.used) :
                 r \in ConsumeIntBounded(SubSeq(b, offset + 1, Len(b)),
                                         min, max, bits) }

\* func DecodeIntsBoundedSlice(b []byte, min, max int64)
\* ([]int64, int, int, error): the set of results; panicked when the call
\* does not return
DecodeIntsBoundedSlice(b, min, max) ==
    LET u == Uvarint(SubSeq(b, 2, Len(b)))
    IN  IF Len(b) = 0 THEN {IntsFailed(ErrIntsEmpty)}
        ELSE IF b[1] > 52 THEN {IntsFailed(ErrIntsHeader)}
        ELSE IF u.n <= 0 THEN {IntsFailed(ErrIntsLength)}
        ELSE IF MakeSlicePanics(u.x)
        THEN {[values |-> <<>>, bits |-> 0, n |-> 0, err |-> Nil,
               panicked |-> TRUE]}
        ELSE ConsumeAllInts(b, min, max, b[1], u.x, 0, <<>>, 1 + u.n)

ErrEOF == "EOF"
ErrStreamHeader == "varfloat: invalid mantissa bits in stream header"
ErrVarintOverflow == "binary: varint overflows a 64-bit integer"

\* mutation of WriteChunk: the length written is the number of values
WriteChunkCountAsLength(values, bits) ==
    LET p == EncodeFloats(values, bits)
    IN  IF bits < 0 \/ bits > 52 THEN [b |-> <<>>, err |-> ErrBits]
        ELSE IF p.err # Nil THEN [b |-> <<>>, err |-> p.err]
        ELSE [b |-> <<bits>> \o PutUvarint(NatBits(Len(values))) \o p.b,
              err |-> Nil]

\* func (e *FloatStreamEncoder) WriteChunk(values []float64, bits int) error
\* on a writer that accepts every Write: b is what it writes
WriteChunk(values, bits) ==
    LET p == EncodeFloats(values, bits)
    IN  IF bits < 0 \/ bits > 52 THEN [b |-> <<>>, err |-> ErrBits]
        ELSE IF p.err # Nil THEN [b |-> <<>>, err |-> p.err]
        ELSE [b |-> <<bits>> \o PutUvarint(NatBits(Len(p.b))) \o p.b,
              err |-> Nil]

\* a result of ReadChunk that is an error, after reading k bytes
ChunkFailed(err, k) ==
    [values |-> <<>>, bits |-> 0, err |-> err, n |-> k, panicked |-> FALSE]

\* the start of ReadChunk on the bytes r: the bit count r[1], then the
\* payload length u = binary.ReadUvarint on rest, the bytes after it, then
\* make([]byte, byteLen) and io.ReadFull; on success n is where the
\* payload ends
ReadChunkHeader(r, rest, u) ==
    IF Len(r) = 0 THEN ChunkFailed(ErrEOF, 0)
    ELSE IF r[1] > 52 THEN ChunkFailed(ErrStreamHeader, 1)
    ELSE IF u.n = 0
    THEN ChunkFailed(IF rest = <<>> THEN ErrEOF ELSE ErrUnexpectedEOF, Len(r))
    ELSE IF u.n < 0 THEN ChunkFailed(ErrVarintOverflow, 1 - u.n)
    ELSE IF u.x = {}
    THEN [values |-> <<>>, bits |-> r[1], err |-> Nil, n |-> 1 + u.n,
          panicked |-> FALSE]
    ELSE IF BLess(MaxAlloc, u.x)
    THEN [values |-> <<>>, bits |-> 0, err |-> Nil, n |-> 1 + u.n,
          panicked |-> TRUE]
    ELSE IF BLess(NatBits(Len(rest) - u.n), u.x)
    THEN ChunkFailed(IF Len(rest) = u.n THEN ErrEOF ELSE ErrUnexpectedEOF,
                     Len(r))
    ELSE [values |-> <<>>, bits |-> r[1], err |-> Nil,
          n |-> 1 + u.n + BitsNat(u.x), panicked |-> FALSE]

\* the end of ReadChunk, with h what the header gave and d what
\* DecodeFloats(buf, bits) returned
ReadChunkPayload(h, d) ==
    IF d.panicked THEN [h EXCEPT !.bits = 0, !.panicked = TRUE]
    ELSE IF d.err # Nil THEN ChunkFailed(d.err, h.n)
    ELSE [h EXCEPT !.values = d.values]

\* the payload that ReadChunk reads after the header h: the bytes of r
\* up to h.n, after the bit count and a length of k bytes
ReadChunkBody(r, h, k) ==
    ReadChunkPayload(h, DecodeFloats(SubSeq(r, 2 + k, h.n), h.bits))

\* if byteLen == 0 { return nil, bits, nil }, and the error returns
ReadChunkAfterHeader(r, h, u) ==
    IF h.err # Nil \/ h.panicked \/ u.x = {} THEN h
    ELSE ReadChunkBody(r, h, u.n)

ReadChunkFrom(r, rest) ==
    ReadChunkAfterHeader(r, ReadChunkHeader(r, rest, Uvarint(rest)), Uvarint(rest))

\* func (d *FloatStreamDecoder) ReadChunk() ([]float64, int, error) on a
\* reader with the bytes r left: n is the number of bytes it takes from the
\* reader, panicked when the call does not return
ReadChunk(r) == ReadChunkFrom(r, SubSeq(r, 2, Len(r)))

\* a / b on int64 for b # 0: the quotient truncated toward zero
I64Quo(a, b) ==
    LET q == BDivMod(I64Abs(a), I64Abs(b)).q
    IN  IF I64Neg(a) # I64Neg(b) THEN Neg64(q) ELSE Wrap64(q)

\* a * b on int64
I64Mul(a, b) == Wrap64(BMul(a, b))

\* mutation of QuantizeIntDown: v is rounded to the nearest multiple
QuantizeIntNearest(v, step) ==
    IF ~I64Less({}, step) THEN v
    ELSE I64Mul(I64Quo(I64Add(v, I64Quo(step, {1})), step), step)

\* func QuantizeIntDown(v, step int64) int64
QuantizeIntDown(v, step) ==
    IF ~I64Less({}, step) THEN v
    ELSE I64Mul(I64Quo(v, step), step)

\* func MaxIntQuantizationError(step int64) int64
MaxIntQuantizationError(step) ==
    IF ~I64Less({}, step) THEN {}
    ELSE I64Sub(step, {0})

----------------------------------------------------------------------------
(* The callers.  pc is the caller's position; the other variables are the  *)
(* arguments it passes and the results it got back.                        *)

VARIABLES
    pc,     \* "start", then "encoded", then "decoded"
    bits,   \* the mantissa bit count the caller passes
    v,      \* the float64 the caller encodes
    enc,    \* what EncodeFloat returned: [b, err]
    dec,    \* what DecodeFloat returned: [v, n, err]
    vals,   \* the values appended to dst so far
    dst,    \* the byte buffer a caller appends to and consumes from
    off,    \* the caller's running offset into dst
    outs,   \* what the Consume calls returned so far, in order
    n,      \* the int64 the caller encodes
    min,    \* the bounds the caller passes
    max,
    ibits,  \* what BitsForIntRange returned: [bits, err]
    ienc,   \* what AppendIntBounded / AppendIntAuto returned: [b, err]
    idec,   \* what ConsumeIntBounded / ConsumeIntAuto returned: [n, used, err]
    maxAbsErr, \* the error bound the caller passes to the lossy codec
    word,   \* a 64-bit word the caller hands to zigzag or to PutUvarint
    zz,     \* what zigZagEncode returned
    unzz,   \* what zigZagDecode returned
    uv,     \* the bytes PutUvarint wrote
    unuv,   \* what Uvarint returned: [x, n]
    maxRelErr, \* the relative error the caller passes to BitsForMaxRelError
    DefaultConfig, \* the package variable DefaultConfig
    calls,  \* the SetMantissaBits calls so far: [bits, err], in order
    callers, \* per concurrent caller: its position, arguments and results
    sres,   \* what a slice decoder returned: [values, n, err, panicked]
    step,   \* the step the caller passes to QuantizeIntDown
    quant   \* what the quantization helpers returned: [once, twice, maxErr]

floatVars == <<v, enc, dec>>

concatVars == <<vals, dst, off, outs>>

intVars == <<n, min, max, ibits, ienc, idec>>

primVars == <<word, zz, unzz, uv, unuv>>

sharedVars == <<DefaultConfig, calls, callers>>

quantVars == <<step, quant>>

vars ==
    <<pc, bits, floatVars, concatVars, intVars, maxAbsErr, primVars,
      maxRelErr, sharedVars, sres, quantVars>>

\* 53-bit significands: 1, 1.5, 2 - 2^-52, 1 + 2^-52, 3.14159 / 2,
\* 1000 / 512 and 4/3
Sigs ==
    { {52}, {52, 51}, 0..52, {52, 0},
      {1, 2, 3, 5, 6, 9, 10, 15, 16, 17, 19, 20, 28, 29, 30, 31, 32, 35, 36,
       37, 38, 39, 40, 45, 48, 51, 52},
      {46, 48, 49, 50, 51, 52},
      {2 * i : i \in 0..26} }

\* exponents of the unit in the last place: values from 2^-1022 to 2^1024
Exps == {-1074, -62, -53, -52, -51, -43, 971}

\* subnormal significands: 2^-1074, 2^-1023 and the largest subnormal
SubSigs == { {0}, {51}, 0..51 }

Floats ==
    {Zero(0), Zero(1)}
    \cup {Fin(s, sig, e) : s \in {0, 1}, sig \in Sigs, e \in Exps}
    \cup {Fin(s, sig, -1074) : s \in {0, 1}, sig \in SubSigs}

BitCounts == {-1, 0, 1, 2, 3, 7, 8, 10, 16, 23, 32, 51, 52, 53}

NoEnc == [b |-> <<>>, err |-> Nil]

NoDec == [v |-> Zero(0), n |-> 0, err |-> Nil]

NoConcat ==
    /\ vals = <<>>
    /\ dst = <<>>
    /\ off = 0
    /\ outs = <<>>

NoIBits == [bits |-> 0, err |-> Nil]

NoIDec == [n |-> {}, used |-> 0, err |-> Nil]

NoInt ==
    /\ n = {}
    /\ min = {}
    /\ max = {}
    /\ ibits = NoIBits
    /\ ienc = NoEnc
    /\ idec = NoIDec

NoLossy == maxAbsErr = {}

NoUvarint == [x |-> {}, n |-> 0]

NoPrim ==
    /\ word = {}
    /\ zz = {}
    /\ unzz = {}
    /\ uv = <<>>
    /\ unuv = NoUvarint

NoAdvice == maxRelErr = Zero(0)

\* var DefaultConfig = Config{MantissaBits: 10}
NoShared ==
    /\ DefaultConfig = Config(10)
    /\ calls = <<>>
    /\ callers = <<>>

NoSRes == [values |-> <<>>, n |-> 0, err |-> Nil, panicked |-> FALSE]

NoQuantRes == [once |-> {}, twice |-> {}, maxErr |-> {}]

NoQuant ==
    /\ step = {}
    /\ quant = NoQuantRes

\* the variables of the callers that come after the integer primitives
NoRest ==
    /\ NoAdvice
    /\ NoShared
    /\ sres = NoSRes
    /\ NoQuant

Init ==
    /\ pc = "start"
    /\ bits \in BitCounts
    /\ v \in Floats
    /\ enc = NoEnc
    /\ dec = NoDec
    /\ NoConcat
    /\ NoInt
    /\ NoLossy
    /\ NoPrim
    /\ NoRest

\* the caller encodes v with bits
DoEncodeFloat ==
    /\ pc = "start"
    /\ enc' = EncodeFloat(v, bits)
    /\ pc' = "encoded"
    /\ UNCHANGED <<bits, v, dec, concatVars, intVars, maxAbsErr, primVars,
                 maxRelErr, sharedVars, sres, quantVars>>

\* the caller decodes what it got with the same bits
DoDecodeFloat ==
    /\ pc = "encoded"
    /\ dec' = DecodeFloat(enc.b, bits)
    /\ pc' = "decoded"
    /\ UNCHANGED <<bits, v, enc, concatVars, intVars, maxAbsErr, primVars,
                 maxRelErr, sharedVars, sres, quantVars>>

Next == DoEncodeFloat \/ DoDecodeFloat

Spec == Init /\ [][Next]_vars

----------------------------------------------------------------------------
(* A caller that appends several values to one buffer with one Config and  *)
(* then consumes them from a running offset, as EncodeFloatSlice and       *)
(* DecodeFloatSlice do after the length prefix.                            *)

MaxVals == 3

\* 0, 1, -3.14159 and 2^-1074 (whose header takes two bytes)
ConcatFloats ==
    { Zero(0), One,
      Fin(1, {1, 2, 3, 5, 6, 9, 10, 15, 16, 17, 19, 20, 28, 29, 30, 31, 32, 35,
              36, 37, 38, 39, 40, 45, 48, 51, 52}, -51),
      Fin(0, {0}, -1074) }

ConcatBitCounts == {0, 10, 52}

InitConcat ==
    /\ pc = "writing"
    /\ bits \in ConcatBitCounts
    /\ v = Zero(0)
    /\ enc = NoEnc
    /\ dec = NoDec
    /\ NoConcat
    /\ NoInt
    /\ NoLossy
    /\ NoPrim
    /\ NoRest

\* buf = cfg.Append(buf, x)
DoAppend ==
    /\ pc = "writing"
    /\ Len(vals) < MaxVals
    /\ \E x \in ConcatFloats :
          /\ dst' = ConfigAppend(NewConfig(bits).cfg, dst, x)
          /\ vals' = Append(vals, x)
    /\ UNCHANGED <<pc, bits, floatVars, off, outs, intVars, maxAbsErr, primVars,
                 maxRelErr, sharedVars, sres, quantVars>>

\* v, used, err := cfg.Consume(b); b = b[used:]; consumed += used
DoConsume ==
    /\ pc \in {"writing", "reading"}
    /\ off < Len(dst)
    /\ LET r == ConfigConsume(NewConfig(bits).cfg, SubSeq(dst, off + 1, Len(dst)))
       IN  /\ outs' = Append(outs, r)
           /\ off' = off + r.n
    /\ pc' = "reading"
    /\ UNCHANGED <<bits, floatVars, vals, dst, intVars, maxAbsErr, primVars,
                 maxRelErr, sharedVars, sres, quantVars>>

NextConcat == DoAppend \/ DoConsume

SpecConcat == InitConcat /\ [][NextConcat]_vars

----------------------------------------------------------------------------
(* A caller of the bounded-integer codec: it either asks BitsForIntRange   *)
(* for the bit count and uses AppendIntBounded / ConsumeIntBounded with    *)
(* it, or uses AppendIntAuto / ConsumeIntAuto.                             *)

\* the small integers are -IntSpan..IntSpan
IntSpan == 12

\* 2^52
TwoTo52 == {52}

\* [min, max] pairs, among them a single point, ranges that do not start
\* at zero, the whole of int64, and one with min > max
Ranges ==
    { <<I64(0), I64(0)>>, <<I64(0), I64(1)>>, <<I64(0), I64(10)>>,
      <<I64(-10), I64(10)>>, <<I64(-12), I64(-7)>>, <<I64(5), I64(9)>>,
      <<I64(1000000), I64(1000001)>>, <<I64(0), TwoTo52>>,
      <<INT64_MIN, INT64_MAX>>, <<I64(5), I64(3)>> }

\* the values tried with a range: every small integer, and the ends of
\* the range and their neighbours
Values(r) ==
    {I64(k) : k \in (-IntSpan)..IntSpan}
    \cup {r[1], r[2], I64Add(r[1], {0}), I64Sub(r[2], {0})}

InitInt ==
    /\ pc = "start"
    /\ bits = 0
    /\ v = Zero(0)
    /\ enc = NoEnc
    /\ dec = NoDec
    /\ NoConcat
    /\ \E r \in Ranges :
          /\ min = r[1]
          /\ max = r[2]
          /\ n \in Values(r)
    /\ ibits = NoIBits
    /\ ienc = NoEnc
    /\ idec = NoIDec
    /\ NoLossy
    /\ NoPrim
    /\ NoRest

\* bits, err := BitsForIntRange(min, max)
DoBitsForIntRange ==
    /\ pc = "start"
    /\ ibits' = BitsForIntRange(min, max)
    /\ pc' = "bits"
    /\ UNCHANGED <<bits, floatVars, concatVars, n, min, max, ienc, idec, maxAbsErr, primVars,
                 maxRelErr, sharedVars, sres, quantVars>>

\* buf, err := AppendIntBounded(nil, n, min, max, bits)
DoAppendIntBounded ==
    /\ pc = "bits"
    /\ ienc' = AppendIntBounded(<<>>, n, min, max, ibits.bits)
    /\ pc' = "encoded"
    /\ UNCHANGED <<bits, floatVars, concatVars, n, min, max, ibits, idec, maxAbsErr, primVars,
                 maxRelErr, sharedVars, sres, quantVars>>

\* got, used, err := ConsumeIntBounded(buf, min, max, bits)
DoConsumeIntBounded ==
    /\ pc = "encoded"
    /\ idec' \in ConsumeIntBounded(ienc.b, min, max, ibits.bits)
    /\ pc' = "decoded"
    /\ UNCHANGED <<bits, floatVars, concatVars, n, min, max, ibits, ienc, maxAbsErr, primVars,
                 maxRelErr, sharedVars, sres, quantVars>>

\* buf, err := AppendIntAuto(nil, n, min, max)
DoAppendIntAuto ==
    /\ pc = "start"
    /\ ienc' = AppendIntAuto(<<>>, n, min, max)
    /\ pc' = "autoEncoded"
    /\ UNCHANGED <<bits, floatVars, concatVars, n, min, max, ibits, idec, maxAbsErr, primVars,
                 maxRelErr, sharedVars, sres, quantVars>>

\* got, used, err := ConsumeIntAuto(buf, min, max)
DoConsumeIntAuto ==
    /\ pc = "autoEncoded"
    /\ idec' \in ConsumeIntAuto(ienc.b, min, max)
    /\ pc' = "autoDecoded"
    /\ UNCHANGED <<bits, floatVars, concatVars, n, min, max, ibits, ienc, maxAbsErr, primVars,
                 maxRelErr, sharedVars, sres, quantVars>>

NextInt ==
    \/ DoBitsForIntRange
    \/ DoAppendIntBounded
    \/ DoConsumeIntBounded
    \/ DoAppendIntAuto
    \/ DoConsumeIntAuto

SpecInt == InitInt /\ [][NextInt]_vars

----------------------------------------------------------------------------
(* A caller of the lossy integer codec: EncodeIntLossy, then               *)
(* DecodeIntLossy with the same bounds and the same maxAbsErr.             *)

\* the error bounds tried: 1, 2, 3, 100, and the invalid 0 and -1
MaxAbsErrs == {I64(1), I64(2), I64(3), I64(100), I64(0), I64(-1)}

InitLossy ==
    /\ pc = "start"
    /\ bits = 0
    /\ v = Zero(0)
    /\ enc = NoEnc
    /\ dec = NoDec
    /\ NoConcat
    /\ \E r \in Ranges :
          /\ min = r[1]
          /\ max = r[2]
          /\ n \in Values(r)
    /\ ibits = NoIBits
    /\ ienc = NoEnc
    /\ idec = NoIDec
    /\ maxAbsErr \in MaxAbsErrs
    /\ NoPrim
    /\ NoRest

\* buf, err := EncodeIntLossy(nil, n, min, max, maxAbsErr)
DoEncodeIntLossy ==
    /\ pc = "start"
    /\ ienc' = EncodeIntLossy(<<>>, n, min, max, maxAbsErr)
    /\ pc' = "lossyEncoded"
    /\ UNCHANGED <<bits, floatVars, concatVars, n, min, max, ibits, idec, maxAbsErr, primVars,
                 maxRelErr, sharedVars, sres, quantVars>>

\* got, used, err := DecodeIntLossy(buf, min, max, maxAbsErr)
DoDecodeIntLossy ==
    /\ pc = "lossyEncoded"
    /\ idec' \in DecodeIntLossy(ienc.b, min, max, maxAbsErr)
    /\ pc' = "lossyDecoded"
    /\ UNCHANGED <<bits, floatVars, concatVars, n, min, max, ibits, ienc, maxAbsErr, primVars,
                 maxRelErr, sharedVars, sres, quantVars>>

NextLossy == DoEncodeIntLossy \/ DoDecodeIntLossy

SpecLossy == InitLossy /\ [][NextLossy]_vars

----------------------------------------------------------------------------
(* A caller that encodes a float and hands the bytes to ConsumeIntBounded  *)
(* with bounds and a bit count of its own choice.                          *)

\* 0, 1, 2.5, 10, -7, 2^-1074, 2^63, -2^63, -2^70 and the largest float64
ClampFloats ==
    { Zero(0), One, Fin(0, {52, 50}, -51), Fin(0, {52, 50}, -49),
      Fin(1, {52, 51, 50}, -50), Fin(0, {0}, -1074), Fin(0, {52}, 11),
      Fin(1, {52}, 11), Fin(1, {52}, 18), Fin(0, 0..52, 971) }

EncodeBitCounts == {0, 4, 52}

DecodeBitCounts == {0, 4, 52, 53}

InitClamp ==
    /\ pc = "start"
    /\ bits \in EncodeBitCounts
    /\ v \in ClampFloats
    /\ enc = NoEnc
    /\ dec = NoDec
    /\ NoConcat
    /\ NoInt
    /\ NoLossy
    /\ NoPrim
    /\ NoRest

\* got, used, err := ConsumeIntBounded(buf, min, max, bits)
DoConsumeMismatched ==
    /\ pc = "encoded"
    /\ \E r \in Ranges, b \in DecodeBitCounts :
          /\ min' = r[1]
          /\ max' = r[2]
          /\ ibits' = [bits |-> b, err |-> Nil]
          /\ idec' \in ConsumeIntBounded(enc.b, r[1], r[2], b)
    /\ pc' = "clamped"
    /\ UNCHANGED <<bits, floatVars, concatVars, n, ienc, maxAbsErr, primVars,
                 maxRelErr, sharedVars, sres, quantVars>>

NextClamp == DoEncodeFloat \/ DoConsumeMismatched

SpecClamp == InitClamp /\ [][NextClamp]_vars

----------------------------------------------------------------------------
(* A caller that passes a bit count of its own to AppendIntBounded and     *)
(* then encodes float64(n) with EncodeFloat and the same bit count.        *)

BoundedBitCounts == {-1, 0, 8, 52, 53}

InitBounded ==
    /\ pc = "start"
    /\ bits \in BoundedBitCounts
    /\ v = Zero(0)
    /\ enc = NoEnc
    /\ dec = NoDec
    /\ NoConcat
    /\ \E r \in Ranges :
          /\ min = r[1]
          /\ max = r[2]
          /\ n \in Values(r)
    /\ ibits = NoIBits
    /\ ienc = NoEnc
    /\ idec = NoIDec
    /\ NoLossy
    /\ NoPrim
    /\ NoRest

\* buf, err := AppendIntBounded(nil, n, min, max, bits)
DoAppendIntBoundedWith ==
    /\ pc = "start"
    /\ ienc' = AppendIntBounded(<<>>, n, min, max, bits)
    /\ pc' = "intEncoded"
    /\ UNCHANGED <<bits, floatVars, concatVars, n, min, max, ibits, idec, maxAbsErr, primVars,
                 maxRelErr, sharedVars, sres, quantVars>>

\* buf, err := EncodeFloat(float64(n), bits)
DoEncodeFloatOfInt ==
    /\ pc = "intEncoded"
    /\ v' = I64ToF64(n)
    /\ enc' = EncodeFloat(v', bits)
    /\ pc' = "bothEncoded"
    /\ UNCHANGED <<bits, dec, concatVars, intVars, maxAbsErr, primVars,
                 maxRelErr, sharedVars, sres, quantVars>>

NextBounded == DoAppendIntBoundedWith \/ DoEncodeFloatOfInt

SpecBounded == InitBounded /\ [][NextBounded]_vars

----------------------------------------------------------------------------
(* A caller that decodes damaged input: a strict prefix of what            *)
(* EncodeFloat returned, or bytes that no encoder wrote.                   *)

\* headers with a zero exponent field (1, and 0 and 1 spelled in two or
\* three bytes), alone and followed by a mantissa byte; the zero
\* sentinel; a good encoding of 1.0; a header that never ends
RawBuffers ==
    { <<1>>, <<1, 0>>, <<128, 0>>, <<128, 0, 5>>, <<129, 0>>, <<129, 0, 5>>,
      <<128, 128, 0>>, <<129, 128, 0, 7>>,
      <<0>>, <<0, 5>>, <<2, 0>>, <<3, 0>>, <<128>>,
      <<128, 128, 128, 128, 128, 128, 128, 128, 128, 128, 1>> }

\* value, used, err := DecodeFloat(buf[:k], bits) with k < len(buf)
DoDecodeTruncated ==
    /\ pc = "encoded"
    /\ \E k \in 0..(Len(enc.b) - 1) :
          /\ dst' = SubSeq(enc.b, 1, k)
          /\ dec' = DecodeFloat(dst', bits)
    /\ pc' = "truncated"
    /\ UNCHANGED <<bits, v, enc, vals, off, outs, intVars, maxAbsErr, primVars,
                 maxRelErr, sharedVars, sres, quantVars>>

\* value, used, err := DecodeFloat(raw, bits)
DoDecodeRaw ==
    /\ pc = "start"
    /\ dst' \in RawBuffers
    /\ dec' = DecodeFloat(dst', bits)
    /\ pc' = "raw"
    /\ UNCHANGED <<bits, v, enc, vals, off, outs, intVars, maxAbsErr, primVars,
                 maxRelErr, sharedVars, sres, quantVars>>

NextCorrupt == DoEncodeFloat \/ DoDecodeTruncated \/ DoDecodeRaw

SpecCorrupt == Init /\ [][NextCorrupt]_vars

----------------------------------------------------------------------------
(* A caller of the two integer primitives under the float codec: zigzag    *)
(* for the exponent, unsigned varints for the header and the mantissa.     *)

\* the small words are -WordSpan..WordSpan
WordSpan == 20

\* 64-bit words: the small integers, every power of two, every 2^k - 1,
\* their complements, and the ends of int64 with their neighbours
Words ==
    {I64(k) : k \in (-WordSpan)..WordSpan}
    \cup {{k} : k \in 0..63}
    \cup {0..k : k \in 0..63}
    \cup {Not64({k}) : k \in 0..63}
    \cup {Not64(0..k) : k \in 0..63}
    \cup {INT64_MIN, INT64_MAX, I64Add(INT64_MIN, {0}), I64Sub(INT64_MAX, {0})}

InitPrim ==
    /\ pc = "start"
    /\ bits = 0
    /\ v = Zero(0)
    /\ enc = NoEnc
    /\ dec = NoDec
    /\ NoConcat
    /\ NoInt
    /\ NoLossy
    /\ word \in Words
    /\ zz = {}
    /\ unzz = {}
    /\ uv = <<>>
    /\ unuv = NoUvarint
    /\ NoRest

\* ez := zigZagEncode(int64(e))
DoZigZagEncode ==
    /\ pc = "start"
    /\ zz' = zigZagEncode(word)
    /\ pc' = "zz"
    /\ UNCHANGED <<bits, floatVars, concatVars, intVars, maxAbsErr, word, unzz, uv, unuv,
                 maxRelErr, sharedVars, sres, quantVars>>

\* e := zigZagDecode(ez)
DoZigZagDecode ==
    /\ pc = "zz"
    /\ unzz' = zigZagDecode(zz)
    /\ pc' = "unzz"
    /\ UNCHANGED <<bits, floatVars, concatVars, intVars, maxAbsErr, word, zz, uv, unuv,
                 maxRelErr, sharedVars, sres, quantVars>>

\* n := binary.PutUvarint(tmp[:], header); dst = append(dst, tmp[:n]...)
DoPutUvarint ==
    /\ pc = "start"
    /\ uv' = PutUvarint(word)
    /\ pc' = "uv"
    /\ UNCHANGED <<bits, floatVars, concatVars, intVars, maxAbsErr, word, zz, unzz, unuv,
                 maxRelErr, sharedVars, sres, quantVars>>

\* header, n := binary.Uvarint(b)
DoUvarint ==
    /\ pc = "uv"
    /\ unuv' = Uvarint(uv)
    /\ pc' = "unuv"
    /\ UNCHANGED <<bits, floatVars, concatVars, intVars, maxAbsErr, word, zz, unzz, uv,
                 maxRelErr, sharedVars, sres, quantVars>>

NextPrim == DoZigZagEncode \/ DoZigZagDecode \/ DoPutUvarint \/ DoUvarint

SpecPrim == InitPrim /\ [][NextPrim]_vars

----------------------------------------------------------------------------
(* A caller of the bit-count advisors BitsForIntMaxError and               *)
(* BitsForMaxRelError.                                                     *)

\* Ranges, and [0, 10000], [0, 2^60 + 1] and [-1, INT64_MAX]
AdvisorRanges ==
    Ranges \cup { <<I64(0), I64(10000)>>, <<I64(0), {60, 0}>>,
                  <<I64(-1), INT64_MAX>> }

\* MaxAbsErrs, and 5, 7 and 1024
AdvisorErrs == MaxAbsErrs \cup {I64(5), I64(7), I64(1024)}

\* 0.001, 0.1, 0.75, 0.5, 0.25, 2^-52, 2^-53, 2^-1074, and outside (0, 1):
\* 0, 1, 2, -0.5, +Inf and NaN
RelErrs ==
    { Fin(0, {2, 3, 4, 5, 6, 7, 8, 11, 13, 15, 16, 20, 21, 22, 23, 25, 28, 30,
              31, 32, 34, 35, 38, 41, 45, 46, 52}, -62),
      Fin(0, {1, 3, 4, 7, 8, 11, 12, 15, 16, 19, 20, 23, 24, 27, 28, 31, 32,
              35, 36, 39, 40, 43, 44, 47, 48, 51, 52}, -56),
      Fin(0, {51, 52}, -53), Half, Fin(0, {52}, -54), Fin(0, {52}, -104),
      Fin(0, {52}, -105), Fin(0, {0}, -1074),
      Zero(0), One, Two, FNeg(Half), Inf(0), NaN }

InitAdvisor ==
    /\ pc = "start"
    /\ bits = 0
    /\ v = Zero(0)
    /\ enc = NoEnc
    /\ dec = NoDec
    /\ NoConcat
    /\ \E r \in AdvisorRanges :
          /\ min = r[1]
          /\ max = r[2]
    /\ n = {}
    /\ ibits = NoIBits
    /\ ienc = NoEnc
    /\ idec = NoIDec
    /\ maxAbsErr \in AdvisorErrs
    /\ NoPrim
    /\ maxRelErr \in RelErrs
    /\ NoShared
    /\ sres = NoSRes
    /\ NoQuant

\* bits, err := BitsForIntMaxError(min, max, maxAbsErr)
DoBitsForIntMaxError ==
    /\ pc = "start"
    /\ ibits' = BitsForIntMaxError(min, max, maxAbsErr)
    /\ pc' = "maxErrBits"
    /\ UNCHANGED <<bits, floatVars, concatVars, n, min, max, ienc, idec, maxAbsErr,
                   primVars, maxRelErr, sharedVars, sres, quantVars>>

\* bits, err := BitsForMaxRelError(maxRelErr)
DoBitsForMaxRelError ==
    /\ pc = "start"
    /\ ibits' \in BitsForMaxRelError(maxRelErr)
    /\ pc' = "relErrBits"
    /\ UNCHANGED <<bits, floatVars, concatVars, n, min, max, ienc, idec, maxAbsErr,
                   primVars, maxRelErr, sharedVars, sres, quantVars>>

NextAdvisor == DoBitsForIntMaxError \/ DoBitsForMaxRelError

SpecAdvisor == InitAdvisor /\ [][NextAdvisor]_vars

----------------------------------------------------------------------------
(* Concurrent callers.  Each caller makes one call, with a buffer of its   *)
(* own: EncodeFloat or DecodeFloat, which run in two steps (NewConfig,     *)
(* then the method on the Config it returned), or the package-level        *)
(* Append or Consume, which read DefaultConfig.  SetMantissaBits calls     *)
(* run in between.                                                         *)

Callers == {1, 2}

\* the number of SetMantissaBits calls
MaxCalls == 2

SetBitArgs == {-1, 0, 52, 53}

CallBitCounts == {2}

\* -1.75
SharedValue == Fin(1, {0, 1, 2}, -2)

\* -1.75 encoded with 2 bits
SharedBytes == ConfigAppend(Config(2), <<>>, SharedValue)

IdleCaller ==
    [pc |-> "idle", op |-> "", bits |-> 0, cfg |-> Config(0), at |-> 0,
     res |-> [out |-> <<>>, err |-> Nil]]

InitShared ==
    /\ pc = "running"
    /\ bits = 0
    /\ v = Zero(0)
    /\ enc = NoEnc
    /\ dec = NoDec
    /\ NoConcat
    /\ NoInt
    /\ NoLossy
    /\ NoPrim
    /\ NoAdvice
    /\ DefaultConfig = Config(10)
    /\ calls = <<>>
    /\ callers = [c \in Callers |-> IdleCaller]
    /\ sres = NoSRes
    /\ NoQuant

\* err := SetMantissaBits(b)
DoSetMantissaBits ==
    /\ Len(calls) < MaxCalls
    /\ \E b \in SetBitArgs :
          LET r == SetMantissaBits(DefaultConfig, b)
          IN  /\ DefaultConfig' = r.cfg
              /\ calls' = Append(calls, [bits |-> b, err |-> r.err])
    /\ UNCHANGED <<pc, bits, floatVars, concatVars, intVars, maxAbsErr, primVars,
                   maxRelErr, callers, sres, quantVars>>

\* cfg, err := NewConfig(bits), the first step of EncodeFloat and DecodeFloat
DoNewConfig(c) ==
    /\ callers[c].pc = "idle"
    /\ \E op \in {"EncodeFloat", "DecodeFloat"}, b \in CallBitCounts \cup {53} :
          LET r == NewConfig(b)
          IN  callers' = [callers EXCEPT ![c] =
                  [pc |-> IF r.err # Nil THEN "done" ELSE "configured",
                   op |-> op, bits |-> b, cfg |-> r.cfg, at |-> 0,
                   res |-> [out |-> <<>>, err |-> r.err]]]
    /\ UNCHANGED <<pc, bits, floatVars, concatVars, intVars, maxAbsErr, primVars,
                   maxRelErr, DefaultConfig, calls, sres, quantVars>>

\* buf = cfg.Append(buf, v), or return cfg.Consume(b)
DoMethod(c) ==
    /\ callers[c].pc = "configured"
    /\ LET cfg == ReceiverConfig(callers[c].cfg, DefaultConfig)
           r   == ConfigConsume(cfg, SharedBytes)
       IN  callers' = [callers EXCEPT ![c].pc = "done",
               ![c].res =
                   IF callers[c].op = "EncodeFloat"
                   THEN [out |-> ConfigAppend(cfg, <<>>, SharedValue), err |-> Nil]
                   ELSE [out |-> <<r.v, r.n>>, err |-> r.err]]
    /\ UNCHANGED <<pc, bits, floatVars, concatVars, intVars, maxAbsErr, primVars,
                   maxRelErr, DefaultConfig, calls, sres, quantVars>>

\* buf := Append(nil, v), or v, n, err := Consume(b)
DoPackageCall(c) ==
    /\ callers[c].pc = "idle"
    /\ \E op \in {"Append", "Consume"} :
          LET r == PackageConsume(DefaultConfig, SharedBytes)
          IN  callers' = [callers EXCEPT ![c] =
                  [pc |-> "done", op |-> op, bits |-> 0, cfg |-> Config(0),
                   at |-> Len(calls),
                   res |-> IF op = "Append"
                           THEN [out |-> PackageAppend(DefaultConfig, <<>>, SharedValue),
                                 err |-> Nil]
                           ELSE [out |-> <<r.v, r.n>>, err |-> r.err]]]
    /\ UNCHANGED <<pc, bits, floatVars, concatVars, intVars, maxAbsErr, primVars,
                   maxRelErr, DefaultConfig, calls, sres, quantVars>>

NextShared ==
    \/ DoSetMantissaBits
    \/ \E c \in Callers : DoNewConfig(c)
    \/ \E c \in Callers : DoMethod(c)
    \/ \E c \in Callers : DoPackageCall(c)

SpecShared == InitShared /\ [][NextShared]_vars

----------------------------------------------------------------------------
(* A caller of the slice codecs: it encodes a slice of floats and decodes  *)
(* the result, or hands DecodeFloatSlice or DecodeIntsBoundedSlice a       *)
(* buffer from elsewhere.                                                  *)

SliceBitCounts == {0, 10, 53}

SliceValues ==
    { <<>>, <<One>>,
      <<Fin(1, {1, 2, 3, 5, 6, 9, 10, 15, 16, 17, 19, 20, 28, 29, 30, 31, 32,
                35, 36, 37, 38, 39, 40, 45, 48, 51, 52}, -51),
        Zero(0), Fin(0, {0}, -1074)>> }

\* the last one announces 2^64 - 1 elements, the one before it 2^40
SliceBuffers ==
    { <<>>, <<0>>, <<1>>, <<1, 0>>, <<2, 0, 0, 9>>, <<2, 0>>, <<5>>, <<128>>,
      <<1, 1>>, <<1, 4, 3>>,
      <<128, 128, 128, 128, 128, 2>>,
      <<255, 255, 255, 255, 255, 255, 255, 255, 255, 1>> }

\* the first byte is the bit count; the last one announces 2^64 - 1 elements
IntSliceBuffers ==
    { <<>>, <<53>>, <<10>>, <<10, 0>>, <<10, 1>>, <<10, 128>>,
      <<10, 2>> \o AppendIntBounded(<<>>, I64(7), I64(0), I64(100), 10).b
                \o AppendIntBounded(<<>>, I64(0), I64(0), I64(100), 10).b,
      <<0, 1>> \o AppendIntBounded(<<>>, I64(100), I64(0), I64(100), 0).b,
      <<10, 255, 255, 255, 255, 255, 255, 255, 255, 255, 1>> }

InitSlice ==
    /\ pc = "start"
    /\ bits \in SliceBitCounts
    /\ v = Zero(0)
    /\ enc = NoEnc
    /\ dec = NoDec
    /\ vals \in SliceValues
    /\ dst = <<>>
    /\ off = 0
    /\ outs = <<>>
    /\ n = {}
    /\ min = I64(0)
    /\ max = I64(100)
    /\ ibits = NoIBits
    /\ ienc = NoEnc
    /\ idec = NoIDec
    /\ NoLossy
    /\ NoPrim
    /\ NoRest

\* buf, err := EncodeFloatSlice(values, bits)
DoEncodeFloatSlice ==
    /\ pc = "start"
    /\ enc' = EncodeFloatSlice(vals, bits)
    /\ pc' = "encoded"
    /\ UNCHANGED <<bits, v, dec, concatVars, intVars, maxAbsErr, primVars,
                   maxRelErr, sharedVars, sres, quantVars>>

\* values, consumed, err := DecodeFloatSlice(buf, bits)
DoDecodeFloatSlice ==
    /\ pc = "encoded"
    /\ enc.err = Nil
    /\ dst' = enc.b
    /\ sres' = DecodeFloatSlice(dst', bits)
    /\ pc' = "sliced"
    /\ UNCHANGED <<bits, floatVars, vals, off, outs, intVars, maxAbsErr,
                   primVars, maxRelErr, sharedVars, quantVars>>

\* values, consumed, err := DecodeFloatSlice(raw, bits)
DoDecodeFloatSliceRaw ==
    /\ pc = "start"
    /\ dst' \in SliceBuffers
    /\ sres' = DecodeFloatSlice(dst', bits)
    /\ pc' = "sliced"
    /\ UNCHANGED <<bits, floatVars, vals, off, outs, intVars, maxAbsErr,
                   primVars, maxRelErr, sharedVars, quantVars>>

\* values, bits, consumed, err := DecodeIntsBoundedSlice(raw, min, max)
DoDecodeIntsBoundedSlice ==
    /\ pc = "start"
    /\ dst' \in IntSliceBuffers
    /\ sres' \in DecodeIntsBoundedSlice(dst', min, max)
    /\ pc' = "intSliced"
    /\ UNCHANGED <<bits, floatVars, vals, off, outs, intVars, maxAbsErr,
                   primVars, maxRelErr, sharedVars, quantVars>>

NextSlice ==
    \/ DoEncodeFloatSlice
    \/ DoDecodeFloatSlice
    \/ DoDecodeFloatSliceRaw
    \/ DoDecodeIntsBoundedSlice

SpecSlice == InitSlice /\ [][NextSlice]_vars

----------------------------------------------------------------------------
(* A stream: one FloatStreamEncoder writes chunks to a buffer, then one    *)
(* FloatStreamDecoder reads the buffer.  vals holds the WriteChunk calls   *)
(* with their results, dst the bytes written, off the reader's position,   *)
(* outs the results of the ReadChunk calls.                                *)

MaxChunks == 2

ChunkValues ==
    { <<>>, <<One>>,
      <<Fin(1, {1, 2, 3, 5, 6, 9, 10, 15, 16, 17, 19, 20, 28, 29, 30, 31, 32,
                35, 36, 37, 38, 39, 40, 45, 48, 51, 52}, -51),
        Fin(0, {0}, -1074)>> }

ChunkBitCounts == {-1, 0, 10, 53}

InitStream ==
    /\ pc = "writing"
    /\ bits = 0
    /\ v = Zero(0)
    /\ enc = NoEnc
    /\ dec = NoDec
    /\ NoConcat
    /\ NoInt
    /\ NoLossy
    /\ NoPrim
    /\ NoRest

\* err := e.WriteChunk(values, b)
DoWriteChunk ==
    /\ pc = "writing"
    /\ Len(vals) < MaxChunks
    /\ \E values \in ChunkValues, b \in ChunkBitCounts :
          LET w == WriteChunk(values, b)
          IN  /\ dst' = dst \o w.b
              /\ vals' = Append(vals, [values |-> values, bits |-> b,
                                       err |-> w.err, end |-> Len(dst')])
    /\ UNCHANGED <<pc, bits, floatVars, off, outs, intVars, maxAbsErr, primVars,
                   maxRelErr, sharedVars, sres, quantVars>>

\* values, b, err := d.ReadChunk()
DoReadChunk ==
    /\ Len(outs) <= MaxChunks
    /\ LET r == ReadChunk(SubSeq(dst, off + 1, Len(dst)))
       IN  /\ outs' = Append(outs, r)
           /\ off' = off + r.n
    /\ pc' = "reading"
    /\ UNCHANGED <<bits, floatVars, vals, dst, intVars, maxAbsErr, primVars,
                   maxRelErr, sharedVars, sres, quantVars>>

NextStream == DoWriteChunk \/ DoReadChunk

SpecStream == InitStream /\ [][NextStream]_vars

----------------------------------------------------------------------------
(* A caller of the integer quantization helpers: it quantizes n with       *)
(* step, quantizes the result again, and asks for the error bound.         *)

\* the small integers, and large ones up to the top of int64
QuantValues ==
    {I64(k) : k \in (-IntSpan)..IntSpan}
    \cup {I64(1000000), BAdd(TwoTo52, {0}), I64Sub(INT64_MAX, {0}), INT64_MAX}

QuantSteps ==
    {I64(1), I64(2), I64(3), I64(7), I64(10), I64(100), {40}, INT64_MAX,
     I64(0), I64(-1), I64(-5)}

InitQuant ==
    /\ pc = "start"
    /\ bits = 0
    /\ v = Zero(0)
    /\ enc = NoEnc
    /\ dec = NoDec
    /\ NoConcat
    /\ n \in QuantValues
    /\ min = {}
    /\ max = {}
    /\ ibits = NoIBits
    /\ ienc = NoEnc
    /\ idec = NoIDec
    /\ NoLossy
    /\ NoPrim
    /\ NoAdvice
    /\ NoShared
    /\ sres = NoSRes
    /\ step \in QuantSteps
    /\ quant = NoQuantRes

\* q := QuantizeIntDown(n, step)
DoQuantizeIntDown ==
    /\ pc = "start"
    /\ quant' = [quant EXCEPT !.once = QuantizeIntDown(n, step)]
    /\ pc' = "quantized"
    /\ UNCHANGED <<bits, floatVars, concatVars, intVars, maxAbsErr, primVars,
                   maxRelErr, sharedVars, sres, step>>

\* q2 := QuantizeIntDown(q, step)
DoQuantizeAgain ==
    /\ pc = "quantized"
    /\ quant' = [quant EXCEPT !.twice = QuantizeIntDown(quant.once, step)]
    /\ pc' = "requantized"
    /\ UNCHANGED <<bits, floatVars, concatVars, intVars, maxAbsErr, primVars,
                   maxRelErr, sharedVars, sres, step>>

\* e := MaxIntQuantizationError(step)
DoMaxIntQuantizationError ==
    /\ pc = "requantized"
    /\ quant' = [quant EXCEPT !.maxErr = MaxIntQuantizationError(step)]
    /\ pc' = "bounded"
    /\ UNCHANGED <<bits, floatVars, concatVars, intVars, maxAbsErr, primVars,
                   maxRelErr, sharedVars, sres, step>>

NextQuant ==
    \/ DoQuantizeIntDown
    \/ DoQuantizeAgain
    \/ DoMaxIntQuantizationError

SpecQuant == InitQuant /\ [][NextQuant]_vars

----------------------------------------------------------------------------
(* A caller that builds one buffer from floats and bounded integers, as    *)
(* EncodeFloatSlice and EncodeIntsBoundedSlice do: every call appends to   *)
(* what the earlier calls returned.  vals holds what was appended.         *)

FrameBitCounts == {0, 10}

\* 0, 7 and 100 are in the range [0, 100]; 101 is not
FrameInts == {I64(0), I64(7), I64(100), I64(101)}

InitFrame ==
    /\ pc = "writing"
    /\ bits \in FrameBitCounts
    /\ v = Zero(0)
    /\ enc = NoEnc
    /\ dec = NoDec
    /\ NoConcat
    /\ n = {}
    /\ min = I64(0)
    /\ max = I64(100)
    /\ ibits = NoIBits
    /\ ienc = NoEnc
    /\ idec = NoIDec
    /\ NoLossy
    /\ NoPrim
    /\ NoRest

\* buf = cfg.Append(buf, x)
DoConfigAppend ==
    /\ pc = "writing"
    /\ Len(vals) < MaxVals
    /\ \E x \in ConcatFloats :
          /\ dst' = ConfigAppend(NewConfig(bits).cfg, dst, x)
          /\ vals' = Append(vals, [kind |-> "float", v |-> x, n |-> {}])
    /\ UNCHANGED <<pc, bits, floatVars, off, outs, intVars, maxAbsErr, primVars,
                   maxRelErr, sharedVars, sres, quantVars>>

\* out, err = AppendIntBounded(out, k, min, max, bits); on an error the
\* caller keeps the buffer it had
DoAppendIntBoundedTo ==
    /\ pc = "writing"
    /\ Len(vals) < MaxVals
    /\ \E k \in FrameInts :
          /\ ienc' = AppendIntBounded(dst, k, min, max, bits)
          /\ n' = k
          /\ IF ienc'.err = Nil
             THEN /\ dst' = ienc'.b
                  /\ vals' = Append(vals, [kind |-> "int", v |-> Zero(0), n |-> k])
             ELSE UNCHANGED <<dst, vals>>
    /\ UNCHANGED <<pc, bits, floatVars, off, outs, min, max, ibits, idec,
                   maxAbsErr, primVars, maxRelErr, sharedVars, sres, quantVars>>

NextFrame == DoConfigAppend \/ DoAppendIntBoundedTo

SpecFrame == InitFrame /\ [][NextFrame]_vars

----------------------------------------------------------------------------
(* A caller that encodes and decodes a value, then encodes and decodes     *)
(* what it got back with the same parameters: a float with EncodeFloat     *)
(* and DecodeFloat, or an integer with AppendIntBounded and                *)
(* ConsumeIntBounded.  outs holds the second decoding.                     *)

IdemBitCounts == {0, 8, 52}

\* 0, 1, -3.14159, 2^-1074, 1.5 * 2^1000, -(2 - 2^-52)
IdemFloats ==
    ConcatFloats \cup {Fin(0, {51, 52}, 948), Fin(1, 0..52, -52)}

IdemRanges == { <<I64(0), I64(10)>>, <<I64(-10), I64(10)>>, <<I64(0), TwoTo52>> }

IdemInts(r) == {r[1], r[2], I64(0), I64(1), I64(7), I64(-3)}

InitIdem ==
    /\ pc = "start"
    /\ bits \in IdemBitCounts
    /\ enc = NoEnc
    /\ dec = NoDec
    /\ NoConcat
    /\ \/ v \in IdemFloats /\ n = {} /\ min = {} /\ max = {}
       \/ /\ v = Zero(0)
          /\ \E r \in IdemRanges :
                /\ min = r[1]
                /\ max = r[2]
                /\ n \in IdemInts(r)
    /\ ibits = NoIBits
    /\ ienc = NoEnc
    /\ idec = NoIDec
    /\ NoLossy
    /\ NoPrim
    /\ NoRest

\* buf2, err := EncodeFloat(d, bits), with d the value decoded
DoReencodeFloat ==
    /\ pc = "decoded"
    /\ dec.err = Nil
    /\ enc' = EncodeFloat(dec.v, bits)
    /\ pc' = "reencoded"
    /\ UNCHANGED <<bits, v, dec, concatVars, intVars, maxAbsErr, primVars,
                   maxRelErr, sharedVars, sres, quantVars>>

\* d2, used, err := DecodeFloat(buf2, bits)
DoRedecodeFloat ==
    /\ pc = "reencoded"
    /\ outs' = <<DecodeFloat(enc.b, bits)>>
    /\ pc' = "redecoded"
    /\ UNCHANGED <<bits, floatVars, vals, dst, off, intVars, maxAbsErr, primVars,
                   maxRelErr, sharedVars, sres, quantVars>>

\* got, used, err := ConsumeIntBounded(buf, min, max, bits)
DoConsumeIntBoundedWith ==
    /\ pc = "intEncoded"
    /\ ienc.err = Nil
    /\ idec' \in ConsumeIntBounded(ienc.b, min, max, bits)
    /\ pc' = "intDecoded"
    /\ UNCHANGED <<bits, floatVars, concatVars, n, min, max, ibits, ienc,
                   maxAbsErr, primVars, maxRelErr, sharedVars, sres, quantVars>>

\* buf2, err := AppendIntBounded(nil, got, min, max, bits)
DoReencodeInt ==
    /\ pc = "intDecoded"
    /\ idec.err = Nil
    /\ ienc' = AppendIntBounded(<<>>, idec.n, min, max, bits)
    /\ pc' = "intReencoded"
    /\ UNCHANGED <<bits, floatVars, concatVars, n, min, max, ibits, idec,
                   maxAbsErr, primVars, maxRelErr, sharedVars, sres, quantVars>>

\* got2, used, err := ConsumeIntBounded(buf2, min, max, bits)
DoRedecodeInt ==
    /\ pc = "intReencoded"
    /\ ienc.err = Nil
    /\ \E r \in ConsumeIntBounded(ienc.b, min, max, bits) : outs' = <<r>>
    /\ pc' = "intRedecoded"
    /\ UNCHANGED <<bits, floatVars, vals, dst, off, intVars, maxAbsErr, primVars,
                   maxRelErr, sharedVars, sres, quantVars>>

NextIdem ==
    \/ DoEncodeFloat
    \/ DoDecodeFloat
    \/ DoReencodeFloat
    \/ DoRedecodeFloat
    \/ DoAppendIntBoundedWith
    \/ DoConsumeIntBoundedWith
    \/ DoReencodeInt
    \/ DoRedecodeInt

SpecIdem == InitIdem /\ [][NextIdem]_vars

----------------------------------------------------------------------------
(* Properties of the float codec, checked under Spec *)

ValidBits == bits \in 0..52

Nonzero(f) == f.cls = "fin" /\ f.sig # {}

\* |d - x| / |x| <= 2^-b + 2^-50 for finite d and finite nonzero x, in
\* exact arithmetic
RelErrWithin(d, x, b) ==
    LET e0   == Min2(d.exp, x.exp)
        D    == Shl(d.sig, d.exp - e0)
        X    == Shl(x.sig, x.exp - e0)
        diff == IF d.sign # x.sign THEN BAdd(D, X)
                ELSE IF BLess(D, X) THEN BSub(X, D)
                ELSE BSub(D, X)
    IN  BLeq(Shl(diff, b + 50), BAdd(Shl(X, 50), Shl(X, b)))

\* C1: for every finite nonzero v and bits in [0,52] the decoded value d
\* has |d - v| / |v| <= 2^-bits, up to a slack of 2^-50.
C1_RelativeErrorBound ==
    (pc = "decoded" /\ ValidBits /\ Nonzero(v)) =>
        /\ dec.err = Nil
        /\ dec.v.cls = "fin"
        /\ RelErrWithin(dec.v, v, bits)

\* the fields of a nonzero encoding b
Fields(b) ==
    LET h == Uvarint(b)
        m == Uvarint(SubSeq(b, h.n + 1, Len(b)))
    IN  [sign |-> IF 0 \in h.x THEN 1 ELSE 0,
         e    |-> zigZagDecode(BSub(Shr(h.x, 1), {0})),
         mant |-> m.x]

\* C2: decoding a well-formed nonzero encoding with sign s, exponent e'
\* and mantissa field mant returns (-1)^s * ldexp(m'/2, e' + 1) with
\* m' = 1 + mant / (2^bits - 1) (m' = 1 when bits = 0), and the e' the
\* encoder wrote is the frexp exponent of |v| minus one.
C2_DecodeInvertsNormalization ==
    (pc = "decoded" /\ ValidBits /\ Nonzero(v)) =>
        LET f       == Fields(enc.b)
            mantMax == mantMaxForBits(bits)
            mPrime  == IF mantMax = {} THEN One
                       ELSE FAdd(One, FDiv(U64ToF64(f.mant), U64ToF64(mantMax)))
            mag     == Ldexp(FMul(mPrime, Half), ExpArg(f.e) + 1)
        IN  /\ dec.err = Nil
            /\ f.e = I64(Frexp(v).exp - 1)
            /\ dec.v = IF f.sign = 1 THEN FNeg(mag) ELSE mag

\* C3: with bits = 0 every power of two, of either sign, decodes to
\* itself exactly.
C3_PowersOfTwoExact ==
    (pc = "decoded" /\ bits = 0 /\ Nonzero(v) /\ Cardinality(v.sig) = 1) =>
        dec.err = Nil /\ dec.v = v

\* C4: for every bits in [0,52] a zero of either sign encodes to the
\* single byte 0x00, which decodes to 0.0 with one byte consumed.
C4_ZeroRoundTrip ==
    (ValidBits /\ IsZero(v)) =>
        /\ pc # "start" => enc = [b |-> <<0>>, err |-> Nil]
        /\ pc = "decoded" => dec = [v |-> Zero(0), n |-> 1, err |-> Nil]

C4_Witness == pc = "decoded" /\ v = Zero(1) /\ bits = 52 /\ dec.n = 1

\* C5: for every nonzero v and bits in [0,52], v and -v decode to
\* opposite values, and their encodings differ only in the low bit of
\* the first header byte.
C5_SignSymmetry ==
    (pc = "decoded" /\ ValidBits /\ Nonzero(v)) =>
        LET e2 == EncodeFloat(FNeg(v), bits)
            d2 == DecodeFloat(e2.b, bits)
        IN  /\ dec.err = Nil /\ d2.err = Nil
            /\ FEq(dec.v, FNeg(d2.v))
            /\ Nonzero(dec.v) => dec.v.sign = v.sign
            /\ Len(e2.b) = Len(enc.b)
            /\ \A i \in 2..Len(enc.b) : e2.b[i] = enc.b[i]
            /\ e2.b[1] # enc.b[1]
            /\ e2.b[1] \div 2 = enc.b[1] \div 2

C5_Witness ==
    /\ pc = "decoded" /\ bits = 10 /\ Nonzero(v) /\ v.sign = 1
    /\ Nonzero(dec.v) /\ dec.v.sign = 1 /\ enc.b[1] % 2 = 1

\* C6: for every nonzero finite v and bits in [0,52] the header is
\* nonzero, the first encoded byte is not 0x00, and the value is not
\* decoded through the zero sentinel (which consumes one byte).
C6_HeaderNonzero ==
    (pc # "start" /\ ValidBits /\ Nonzero(v)) =>
        /\ enc.err = Nil
        /\ Uvarint(enc.b).x # {}
        /\ enc.b[1] # 0
        /\ pc = "decoded" => dec.err = Nil /\ dec.n # 1

\* a value in [1, 2): its exponent e' is 0, so zigzag(e') is 0
C6_Witness ==
    /\ pc = "decoded" /\ ValidBits /\ v = Fin(0, {52}, -52)
    /\ enc.b[1] = 2 /\ dec.n = 2

\* C7: the encoding has length 1 exactly when the value is zero; a nonzero
\* value encodes to a header uvarint followed by a mantissa uvarint, at
\* least 2 bytes, also when bits = 0.
C7_LengthOneIffZero ==
    (pc # "start" /\ ValidBits) =>
        /\ Len(enc.b) = 1 <=> IsZero(v)
        /\ Nonzero(v) =>
              LET h == Uvarint(enc.b)
                  m == Uvarint(SubSeq(enc.b, h.n + 1, Len(enc.b)))
              IN  /\ h.n >= 1 /\ m.n >= 1
                  /\ h.n + m.n = Len(enc.b)
                  /\ Len(enc.b) >= 2

C7_Witness == pc = "encoded" /\ bits = 0 /\ Nonzero(v) /\ Len(enc.b) = 2

\* C15: NewConfig, EncodeFloat and DecodeFloat fail with the bit-count
\* error if and only if bits is outside [0,52], so that a Config returned
\* without error carries a bit count in [0,52].
C15_InvalidBitWidth ==
    /\ (pc \in {"encoded", "decoded"}) =>
          /\ enc.err = ErrBits <=> bits \notin 0..52
          /\ NewConfig(bits).err = ErrBits <=> bits \notin 0..52
          /\ NewConfig(bits).err = Nil =>
                NewConfig(bits).cfg.MantissaBits \in 0..52
    /\ (pc = "decoded") => (dec.err = ErrBits <=> bits \notin 0..52)

\* both EncodeFloat and DecodeFloat have refused 53 bits
C15_Witness ==
    pc = "decoded" /\ bits = 53 /\ enc.err = ErrBits /\ dec.err = ErrBits

----------------------------------------------------------------------------
(* Properties of concatenated encodings, checked under SpecConcat *)

RECURSIVE SumN(_, _)
SumN(rs, k) == IF k = 0 THEN 0 ELSE rs[k].n + SumN(rs, k - 1)

\* C8: values encoded with the same bits and concatenated are decoded
\* one by one from the running offset: the i-th decode succeeds, consumes
\* exactly the length of the encoding of the i-th value and returns what
\* decoding that encoding alone returns, whatever bytes follow; the
\* offset is the sum of the consumed lengths, and it reaches the end of
\* the buffer exactly when as many values were decoded as were encoded.
C8_SelfDelimiting ==
    /\ Len(outs) <= Len(vals)
    /\ off = SumN(outs, Len(outs))
    /\ off <= Len(dst)
    /\ (off = Len(dst)) <=> (Len(outs) = Len(vals))
    /\ \A i \in 1..Len(outs) :
          LET alone == EncodeFloat(vals[i], bits)
          IN  /\ outs[i].err = Nil
              /\ outs[i].n = Len(alone.b)
              /\ outs[i] = DecodeFloat(alone.b, bits)

C8_Witness ==
    /\ Len(vals) = MaxVals
    /\ Len(outs) = MaxVals
    /\ off = Len(dst)
    /\ \E i \in 1..(MaxVals - 1) : outs[i].n # outs[i + 1].n

----------------------------------------------------------------------------
(* Properties of the bounded-integer codec, checked under SpecInt *)

InRange == ~I64Less(max, min) /\ ~I64Less(n, min) /\ ~I64Less(max, n)

\* C9: with bits = BitsForIntRange(min, max), min and max, and the values
\* between them (0 among them when it is in range), encoded by
\* AppendIntBounded decode to themselves by ConsumeIntBounded.
C9_BoundedRoundTrip ==
    (pc = "decoded" /\ InRange) =>
        /\ ibits.err = Nil
        /\ ienc.err = Nil
        /\ idec.err = Nil
        /\ idec.n = n

\* C10: for min <= max every n in [min, max] encoded by AppendIntAuto
\* decodes to n by ConsumeIntAuto.
C10_AutoLossless ==
    (pc = "autoDecoded" /\ InRange) =>
        /\ ienc.err = Nil
        /\ idec.err = Nil
        /\ idec.n = n

----------------------------------------------------------------------------
(* Properties of the lossy integer codec, checked under SpecLossy *)

\* |a - b| of two int64 as an unsigned number
I64Dist(a, b) ==
    LET ua == Xor(a, {63})
        ub == Xor(b, {63})
    IN  IF BLess(ua, ub) THEN BSub(ub, ua) ELSE BSub(ua, ub)

\* C11: for min <= max, maxAbsErr > 0 and n in [min, max], the integer d
\* that DecodeIntLossy returns for the bytes of EncodeIntLossy satisfies
\* |d - n| <= maxAbsErr.
C11_LossyErrorBound ==
    (pc = "lossyDecoded" /\ InRange /\ I64Less({}, maxAbsErr)) =>
        /\ ienc.err = Nil
        /\ idec.err = Nil
        /\ BLeq(I64Dist(idec.n, n), maxAbsErr)

----------------------------------------------------------------------------
(* Properties of decoding foreign bytes as a bounded integer, checked      *)
(* under SpecClamp                                                         *)

\* the integer nearest to f, clamped into [lo, hi]
ClampRound(f, lo, hi) ==
    LET r   == Round(f)
        mag == IF r.exp >= 0 THEN Shl(r.sig, r.exp) ELSE Shr(r.sig, -r.exp)
    IN  IF r.cls = "fin" /\ BitLen(r.sig) + r.exp <= 63
        THEN Clamp(IF r.sign = 1 THEN Neg64(mag) ELSE mag, lo, hi)
        ELSE IF r.sign = 1 THEN lo ELSE hi

\* C12: for every buffer that decodes as a float, every min <= max and
\* every bits in [0,52], ConsumeIntBounded returns no error and the
\* integer nearest to the decoded float clamped into [min, max].
C12_DecodeClamps ==
    (/\ pc = "clamped"
     /\ ~I64Less(max, min)
     /\ ibits.bits \in 0..52
     /\ DecodeFloat(enc.b, ibits.bits).err = Nil) =>
        /\ idec.err = Nil
        /\ idec.n = ClampRound(DecodeFloat(enc.b, ibits.bits).v, min, max)

----------------------------------------------------------------------------
(* Properties of AppendIntBounded, checked under SpecBounded *)

\* C13: AppendIntBounded fails with "min must be <= max" whenever
\* min > max, with "value out of bounds" whenever min <= max and n is
\* outside [min, max], with the bit-count error when bits is outside
\* [0,52] and the bounds and n are good, and succeeds otherwise.
C13_EncodeRejectsBadInput ==
    (pc \in {"intEncoded", "bothEncoded"}) =>
        /\ I64Less(max, min) => ienc.err = ErrMinMax
        /\ (~I64Less(max, min) /\ ~InRange) => ienc.err = ErrOutOfBounds
        /\ (InRange /\ bits \notin 0..52) => ienc.err = ErrBits
        /\ (InRange /\ bits \in 0..52) => ienc.err = Nil

\* AppendIntBounded(nil, 11, 0, 10, 8) has failed with "value out of bounds"
C13_Witness ==
    /\ pc = "intEncoded"
    /\ n = I64(11) /\ min = I64(0) /\ max = I64(10) /\ bits = 8
    /\ ienc.err = ErrOutOfBounds

\* C14: for min <= n <= max and bits in [0,52], the bytes of
\* AppendIntBounded(nil, n, min, max, bits) are the bytes of
\* EncodeFloat(float64(n), bits).
C14_WireFormatIsFloat ==
    (pc = "bothEncoded" /\ InRange /\ bits \in 0..52) =>
        /\ ienc.err = Nil
        /\ enc.err = Nil
        /\ ienc.b = enc.b

\* -7 in [-12, -7] was encoded with 8 bits both ways, into three bytes
C14_Witness ==
    /\ pc = "bothEncoded"
    /\ n = I64(-7) /\ min = I64(-12) /\ max = I64(-7) /\ bits = 8
    /\ Len(ienc.b) = 3
    /\ ienc.b = enc.b

----------------------------------------------------------------------------
(* Properties of decoding damaged input, checked under SpecCorrupt *)

\* C16: DecodeFloat of the empty buffer fails with io.ErrUnexpectedEOF,
\* and DecodeFloat of a non-empty strict prefix of the encoding of a
\* nonzero value fails with an error.
C16_TruncatedRejected ==
    (pc = "truncated" /\ ValidBits) =>
        /\ dst = <<>> => dec.err = ErrUnexpectedEOF
        /\ (dst # <<>> /\ Nonzero(v)) => dec.err # Nil

\* an encoding with a two-byte header and a two-byte mantissa was cut
\* inside the mantissa and refused
C16_Witness ==
    /\ pc = "truncated"
    /\ Len(enc.b) >= 4
    /\ Len(dst) = 3
    /\ Uvarint(dst).n = 2
    /\ dec.err = ErrMantissa

\* C17: DecodeFloat fails with "invalid header" whenever the header varint
\* h it reads has h >> 1 = 0 and is not the single zero byte (h = 1, or
\* 0 or 1 spelled in several bytes), and EncodeFloat never writes such a
\* header.
C17_ReservedHeaderRejected ==
    /\ (pc = "raw" /\ ValidBits) =>
          LET h == Uvarint(dst)
          IN  (h.n > 0 /\ Shr(h.x, 1) = {} /\ ~(h.x = {} /\ h.n = 1)) =>
                  dec.err = ErrHeader
    /\ (pc = "encoded" /\ ValidBits) =>
          LET h == Uvarint(enc.b)
          IN  /\ h.n > 0
              /\ Shr(h.x, 1) = {} => enc.b = <<0>>

\* a two-byte spelling of header 0 followed by a mantissa byte was refused
C17_Witness ==
    /\ pc = "raw"
    /\ bits = 10
    /\ dst = <<128, 0, 5>>
    /\ dec.err = ErrHeader

----------------------------------------------------------------------------
(* Properties of zigzag and of the unsigned varints, checked under         *)
(* SpecPrim                                                                *)

\* C18: for every int64 x, zigZagEncode(x) is (x << 1) XOR (x >> 63)
\* modulo 2^64, which is 2x for x >= 0 and 2|x| - 1 for x < 0, and
\* zigZagDecode gives x back.
C18_ZigZagBijection ==
    /\ (pc \in {"zz", "unzz"}) =>
          /\ zz = Xor(Wrap64(Shl(word, 1)), IF 63 \in word THEN 0..63 ELSE {})
          /\ ~I64Neg(word) => zz = Shl(word, 1)
          /\ I64Neg(word) => zz = BSub(Shl(I64Abs(word), 1), {0})
    /\ (pc = "unzz") => unzz = word

\* INT64_MIN has the code 2^64 - 1 and comes back
C18_Witness ==
    pc = "unzz" /\ word = INT64_MIN /\ zz = 0..63 /\ unzz = INT64_MIN

\* C19: for every uint64 u, PutUvarint writes 7 bits of u per byte, the
\* least significant group first, with the high bit set on every byte
\* but the last, and Uvarint of those bytes returns u and their number.
C19_UvarintLEB128 ==
    /\ (pc \in {"uv", "unuv"}) =>
          /\ Len(uv) = IF word = {} THEN 1 ELSE (BitLen(word) + 6) \div 7
          /\ \A i \in 1..Len(uv) :
                /\ uv[i] \in 0..255
                /\ uv[i] % 128 = BitsNat(Shr(Low(word, 7 * i), 7 * (i - 1)))
                /\ uv[i] >= 128 <=> i < Len(uv)
    /\ (pc = "unuv") => unuv = [x |-> word, n |-> Len(uv)]

\* 2^64 - 1 took ten bytes and came back
C19_Witness ==
    pc = "unuv" /\ word = 0..63 /\ Len(uv) = 10 /\ unuv = [x |-> 0..63, n |-> 10]

----------------------------------------------------------------------------
(* Properties of BitsForIntRange, checked under SpecInt *)

\* ceil(log2(W)) for a number W >= 1
CeilLog2Nat(W) == IF W = {MaxOf(W)} THEN MaxOf(W) ELSE MaxOf(W) + 1

\* C20: for min <= max, BitsForIntRange returns ceil(log2(max - min + 1))
\* clamped into [0,52], which is 0 exactly when min = max; it fails with
\* "min must be <= max" if and only if min > max.
C20_BitsForIntRange ==
    (pc \in {"bits", "encoded", "decoded"}) =>
        /\ ibits.err = ErrMinMax <=> I64Less(max, min)
        /\ ~I64Less(max, min) =>
              /\ ibits.err = Nil
              /\ ibits.bits = Min2(52, CeilLog2Nat(BAdd(I64Dist(max, min), {0})))
              /\ ibits.bits = 0 <=> min = max

----------------------------------------------------------------------------
(* Properties of the bit-count advisors, checked under SpecAdvisor *)

\* ceil(log2(W / E)) for numbers W > E >= 1: the least b with W <= E * 2^b
CeilLog2Ratio(W, E) ==
    CHOOSE b \in 0..64 :
        /\ BLeq(W, Shl(E, b))
        /\ \A c \in 0..(b - 1) : ~BLeq(W, Shl(E, c))

\* C21: BitsForIntMaxError fails with "min must be <= max" if min > max
\* and with "maxAbsErr must be > 0" if maxAbsErr <= 0; otherwise it returns
\* 0 when maxAbsErr >= max - min and else ceil(log2((max - min) /
\* maxAbsErr)) clamped into [0,52], so that a result b < 52 has
\* (max - min) / 2^b <= maxAbsErr.
C21_BitsForIntMaxError ==
    (pc = "maxErrBits") =>
        LET W == I64Dist(max, min)
        IN  /\ I64Less(max, min) => ibits.err = ErrMinMax
            /\ (~I64Less(max, min) /\ ~I64Less({}, maxAbsErr)) =>
                  ibits.err = ErrMaxAbsErr
            /\ (~I64Less(max, min) /\ I64Less({}, maxAbsErr)) =>
                  /\ ibits.err = Nil
                  /\ BLeq(W, maxAbsErr) => ibits.bits = 0
                  /\ ~BLeq(W, maxAbsErr) =>
                        ibits.bits = Min2(52, CeilLog2Ratio(W, maxAbsErr))
                  /\ ibits.bits < 52 => BLeq(W, Shl(maxAbsErr, ibits.bits))

\* 0 < x < 1
InUnitInterval(x) == FLess(Zero(0), x) /\ FLess(x, One)

\* the least b in 0..52 with 2^-b <= x, or 52 if there is none
LeastBitsFor(x) ==
    LET ok == {b \in 0..52 : FLeq(Fin(0, {52}, -52 - b), x)}
    IN  IF ok = {} THEN 52 ELSE CHOOSE b \in ok : \A c \in ok : b <= c

\* C22: BitsForMaxRelError fails with "maxRelErr must be in (0, 1)" if and
\* only if maxRelErr is not strictly between 0 and 1; otherwise it returns
\* ceil(log2(1 / maxRelErr)) clamped into [0,52], the least b with
\* 2^-b <= maxRelErr capped at 52.
C22_BitsForMaxRelError ==
    (pc = "relErrBits") =>
        /\ ibits.err = ErrMaxRelErr <=> ~InUnitInterval(maxRelErr)
        /\ InUnitInterval(maxRelErr) =>
              /\ ibits.err = Nil
              /\ ibits.bits = LeastBitsFor(maxRelErr)

----------------------------------------------------------------------------
(* Properties of the concurrent callers, checked under SpecShared *)

PackageOps == {"Append", "Consume"}

Done(c) == callers[c].pc = "done"

\* the result of the explicit-bits call that caller c made, computed in
\* one piece
Sequential(c) ==
    LET e == EncodeFloat(SharedValue, callers[c].bits)
        d == DecodeFloat(SharedBytes, callers[c].bits)
    IN  IF callers[c].op = "EncodeFloat" THEN [out |-> e.b, err |-> e.err]
        ELSE IF d.err = ErrBits THEN [out |-> <<>>, err |-> d.err]
        ELSE [out |-> <<d.v, d.n>>, err |-> d.err]

RECURSIVE LastAccepted(_, _)
LastAccepted(cs, k) ==
    IF k = 0 THEN 10
    ELSE IF cs[k].bits \in 0..52 THEN cs[k].bits
    ELSE LastAccepted(cs, k - 1)

C26_SetMantissaBits ==
    /\ DefaultConfig.MantissaBits \in 0..52
    /\ DefaultConfig = Config(LastAccepted(calls, Len(calls)))
    /\ \A i \in 1..Len(calls) :
          calls[i].err = IF calls[i].bits \in 0..52 THEN Nil ELSE ErrBits

C26_Witness ==
    /\ Len(calls) = 2
    /\ calls[1].bits = 52 /\ calls[1].err = Nil
    /\ calls[2].bits = 53 /\ calls[2].err = ErrBits
    /\ DefaultConfig = Config(52)

----------------------------------------------------------------------------
(* Properties of the slice codecs, checked under SpecSlice *)

\* C25: every call of a decode operation returns, with a value or with an
\* error, whatever the bytes it is given: none panics.
C25_DecodeNeverPanics ==
    (pc \in {"sliced", "intSliced"}) => ~sres.panicked

----------------------------------------------------------------------------
(* Properties of the stream, checked under SpecStream *)

\* the WriteChunk calls among the first k that succeeded
RECURSIVE Succeeded(_)
Succeeded(k) ==
    IF k = 0 THEN <<>>
    ELSE IF vals[k].err = Nil THEN Append(Succeeded(k - 1), vals[k])
    ELSE Succeeded(k - 1)

\* the stream length before the i-th WriteChunk call
EndBefore(i) == IF i = 1 THEN 0 ELSE vals[i - 1].end

\* C27: when the WriteChunk calls have succeeded for k chunks, the i-th
\* ReadChunk call (i <= k) returns the bit count of the i-th chunk and as
\* many values as were written, equal to
\* DecodeFloats(EncodeFloats(values, bits), bits), and the (k+1)-th returns
\* (nil, 0, io.EOF); a WriteChunk call with a bit count outside 0..52 fails
\* and writes nothing.
C27_ChunksInWriteOrder ==
    LET ok == Succeeded(Len(vals))
    IN  /\ \A i \in 1..Len(vals) :
              IF vals[i].bits \in 0..52 THEN vals[i].err = Nil
              ELSE vals[i].err = ErrBits /\ vals[i].end = EndBefore(i)
        /\ \A i \in 1..Len(outs) :
              /\ ~outs[i].panicked
              /\ i <= Len(ok) =>
                    /\ outs[i].err = Nil
                    /\ outs[i].bits = ok[i].bits
                    /\ Len(outs[i].values) = Len(ok[i].values)
                    /\ outs[i].values =
                          DecodeFloats(EncodeFloats(ok[i].values, ok[i].bits).b,
                                       ok[i].bits).values
              /\ i = Len(ok) + 1 =>
                    /\ outs[i].values = <<>>
                    /\ outs[i].bits = 0
                    /\ outs[i].err = ErrEOF

C27_Witness ==
    /\ Len(vals) = 2
    /\ vals[1].err = Nil /\ vals[1].bits = 10 /\ Len(vals[1].values) = 2
    /\ vals[2].err = Nil /\ vals[2].bits = 0 /\ Len(vals[2].values) = 1
    /\ Len(outs) = 3
    /\ outs[1].bits = 10 /\ outs[2].bits = 0 /\ outs[3].err = ErrEOF

----------------------------------------------------------------------------
(* Properties of the quantization helpers, checked under SpecQuant *)

\* n and step are small enough for TLC's own integers
SmallQuant == BLess(I64Abs(n), {30}) /\ BLess(I64Abs(step), {30})

\* C28: for v >= 0 and step > 0, QuantizeIntDown(v, step) is
\* floor(v / step) * step: a multiple of step with
\* 0 <= v - result <= MaxIntQuantizationError(step) = step - 1, and
\* quantizing the result again gives the result; for step <= 0 it is v, and
\* MaxIntQuantizationError(step) is 0.
C28_QuantizeIntDown ==
    (pc = "bounded") =>
        IF I64Less({}, step)
        THEN /\ quant.maxErr = I64Sub(step, {0})
             /\ ~I64Neg(n) =>
                   /\ ~I64Neg(quant.once)
                   /\ BDivMod(quant.once, step).rem = {}
                   /\ BLeq(quant.once, n)
                   /\ BLeq(BSub(n, quant.once), quant.maxErr)
                   /\ quant.twice = quant.once
                   /\ SmallQuant =>
                         I64Int(quant.once)
                             = (I64Int(n) \div I64Int(step)) * I64Int(step)
        ELSE /\ quant.once = n
             /\ quant.maxErr = {}

C28_Witness ==
    /\ pc = "bounded"
    /\ n = I64(11) /\ step = I64(3)
    /\ quant = [once |-> I64(9), twice |-> I64(9), maxErr |-> I64(2)]

----------------------------------------------------------------------------
(* Properties of appending, checked under SpecFrame *)

\* the encoding of an appended item on its own
EncodingOf(item) ==
    IF item.kind = "float" THEN EncodeFloat(item.v, bits).b
    ELSE AppendIntBounded(<<>>, item.n, min, max, bits).b

\* C29: Config.Append(dst, v) returns dst followed by the bytes of
\* EncodeFloat(v, bits), and a successful AppendIntBounded(dst, n, min, max,
\* bits) returns dst followed by the encoding of n: the bytes dst held are
\* kept as they were.
C29_AppendOnlyExtends ==
    [][Len(vals') = Len(vals) + 1 =>
          dst' = dst \o EncodingOf(vals'[Len(vals')])]_vars

C29_Witness ==
    /\ Len(vals) = 3
    /\ vals[1].kind = "float" /\ vals[1].v # Zero(0)
    /\ vals[2].kind = "int" /\ vals[2].n = I64(7)
    /\ vals[3].kind = "float"
    /\ Len(dst) > 4

----------------------------------------------------------------------------
(* Properties of re-encoding, checked under SpecIdem *)

\* C30: the value d decoded from the encoding of a finite v decodes to d
\* again after it is encoded again with the same bit count, and so does
\* the integer decoded from the encoding of a bounded integer, under the
\* same min, max and bit count.
C30_QuantizationIdempotent ==
    /\ (pc = "redecoded") =>
           /\ outs[1].err = Nil
           /\ FEq(outs[1].v, dec.v)
    /\ (pc = "intRedecoded") =>
           /\ outs[1].err = Nil
           /\ outs[1].n = idec.n

====
